---- MODULE Spec2Model ----
(***************************************************************************)
(* Model of the BG3 mod translator's text pipeline                         *)
(* (bg3_translator_core.py), glossary (glossary_manager.py) and dynamic    *)
(* rules manager (dynamic_rules_manager.py).                               *)
(*                                                                         *)
(* A text is a sequence of symbols.  A symbol is one character ("1", "d",  *)
(* "+", " ", "_") or an atomic run of letters ("Bolt", "PROTECTED"); the   *)
(* character classes \d, \s, \w and case folding are defined on symbols.   *)
(***************************************************************************)
EXTENDS Integers, Sequences, FiniteSets, TLC

VARIABLES
    \* TextProcessor.protect_expressions / restore_expressions, called directly
    px_text, px_protected, px_protections, px_restored, px_pc,
    \* DeepLTranslator: config.use_llm_optimization, rule_engine, glossary_manager,
    \* cache._cache, cache._stats
    use_llm_optimization, rule_engine, glossary_manager, cache, hits, misses,
    \* RuleEngine._rules
    re_rules,
    \* DynamicRulesManager: base_rules, learned_rules, mod_specific_rules
    base_rules, learned_rules, mod_specific_rules,
    \* the calls of process_text made so far: their number, the last one and the
    \* one before it (NoCall when there is none or the cache was cleared since)
    calls, last_call, prev_call,
    \* the rule file the translator was constructed with
    rules_file,
    \* DynamicRulesManager: learning_candidates, the content of the file at
    \* learned_rules_path, the clock read by datetime.now() in seconds, and the
    \* last operation called on the manager (or load_rules of the rule engine)
    \* with what it returned
    learning_candidates, learned_file, now, last_op,
    \* the numbers of observations and of imports so far
    learns, imports,
    \* a run of translate_mod: config.parallel_translation, whether a non-empty
    \* openrouter_key was passed, the mod detected from the archive's name, the
    \* XML files found, the results of the files translated so far, the result
    \* of _translate_localization_files and the position of the run
    parallel_translation, openrouter_key, detected_mod, xml_files, results, batch,
    run_pc,
    \* the threads that work on the shared translator and rules manager, each
    \* with its position and the values it holds in locals, and the number of
    \* calls of TranslationCache.get made so far
    threads, lookups

protVars == <<px_text, px_protected, px_protections, px_restored, px_pc>>
transVars == <<use_llm_optimization, rule_engine, glossary_manager, cache, hits, misses>>
engineVars == <<re_rules>>
storeVars == <<base_rules, learned_rules, mod_specific_rules>>
callVars == <<calls, last_call, prev_call, rules_file>>
learnVars == <<learning_candidates, learned_file, now, last_op, learns, imports>>
runVars ==
    <<parallel_translation, openrouter_key, detected_mod, xml_files, results, batch,
      run_pc>>
threadVars == <<threads, lookups>>
vars ==
    <<protVars, transVars, engineVars, storeVars, callVars, learnVars, runVars,
      threadVars>>

------------------------------------------------------------------------------
(* Character classes of Python's re module on symbols *)

DigitSyms == {"0", "1", "2", "3", "4", "5", "6", "7", "8", "9"}
NonWordSyms ==
    {" ", "+", "-", ".", ",", "'", "<dquote>", "<euro>", "<tm>", "<copy>",
     "<sect>", "<diaeresis>", "<acute>"}

IsDigit(c) == c \in DigitSyms
IsSpace(c) == c = " "
IsWord(c) == c \notin NonWordSyms

\* re.IGNORECASE folding of a symbol
Lower(c) ==
    CASE c = "D" -> "d"
      [] c = "X" -> "x"
      [] c = "Armor" -> "armor"
      [] c = "ARMOR" -> "armor"
      [] c = "Heavy" -> "heavy"
      [] c = "Bolt" -> "bolt"
      [] c = "Loaded" -> "loaded"
      [] OTHER -> c

LowerSeq(s) == [i \in 1..Len(s) |-> Lower(s[i])]

\* number of characters of a symbol
CharLen(c) ==
    CASE c \in {"Armor", "Heavy", "Class", "armor", "heavy", "greve"} -> 5
      [] c = "wearers" -> 7
      [] OTHER -> 1

\* len(t)
RECURSIVE StrLen(_)
StrLen(t) == IF t = << >> THEN 0 ELSE CharLen(t[1]) + StrLen(Tail(t))

WordAt(t, i) == i >= 1 /\ i <= Len(t) /\ IsWord(t[i])

\* \b holds between t[i-1] and t[i]
Boundary(t, i) == WordAt(t, i - 1) # WordAt(t, i)

RECURSIVE DigitRunEnd(_, _)
DigitRunEnd(t, i) ==
    IF i <= Len(t) /\ IsDigit(t[i]) THEN DigitRunEnd(t, i + 1) ELSE i

RECURSIVE SpaceRunEnd(_, _)
SpaceRunEnd(t, i) ==
    IF i <= Len(t) /\ IsSpace(t[i]) THEN SpaceRunEnd(t, i + 1) ELSE i

\* DICE_PATTERN = \b(\d+d\d+(?:\s*[+-]\s*\d+)?)\b with re.IGNORECASE, tried
\* at position p: the index after the match, 0 when there is no match at p.
\* Every \d+ and \s* is followed by a symbol outside its class (or by \b), so
\* backtracking only chooses between taking and skipping the optional group.
DiceMatchEnd(t, p) ==
    LET a == DigitRunEnd(t, p)
        hasD == a > p /\ a <= Len(t) /\ Lower(t[a]) = "d"
        b == DigitRunEnd(t, a + 1)
        core == hasD /\ b > a + 1
        s1 == SpaceRunEnd(t, b)
        sign == s1 <= Len(t) /\ t[s1] \in {"+", "-"}
        s2 == SpaceRunEnd(t, s1 + 1)
        c == DigitRunEnd(t, s2)
        opt == sign /\ c > s2
    IN  IF ~Boundary(t, p) \/ ~core THEN 0
        ELSE IF opt /\ Boundary(t, c) THEN c
        ELSE IF Boundary(t, b) THEN b
        ELSE 0

\* pattern.findall(text): the non-overlapping matches, left to right
RECURSIVE FindAllFrom(_, _)
FindAllFrom(t, p) ==
    IF p > Len(t) THEN << >>
    ELSE LET e == DiceMatchEnd(t, p)
         IN  IF e = 0 THEN FindAllFrom(t, p + 1)
             ELSE <<SubSeq(t, p, e - 1)>> \o FindAllFrom(t, e)

FindAll(t) == FindAllFrom(t, 1)

StartsAt(t, p, s) ==
    p + Len(s) - 1 <= Len(t) /\ SubSeq(t, p, p + Len(s) - 1) = s

\* str.replace(old, new): every non-overlapping occurrence, left to right
RECURSIVE StrReplaceFrom(_, _, _, _)
StrReplaceFrom(t, p, old, new) ==
    IF p > Len(t) THEN << >>
    ELSE IF Len(old) > 0 /\ StartsAt(t, p, old)
         THEN new \o StrReplaceFrom(t, p + Len(old), old, new)
         ELSE <<t[p]>> \o StrReplaceFrom(t, p + 1, old, new)

StrReplace(t, old, new) == StrReplaceFrom(t, 1, old, new)

\* "old in text"
Contains(t, s) == \E p \in 1..Len(t) : StartsAt(t, p, s)

------------------------------------------------------------------------------
(* TextProcessor *)

DigitOf(n) ==
    CASE n = 0 -> "0" [] n = 1 -> "1" [] n = 2 -> "2" [] n = 3 -> "3"
      [] n = 4 -> "4" [] n = 5 -> "5" [] n = 6 -> "6" [] n = 7 -> "7"
      [] n = 8 -> "8" [] n = 9 -> "9"

\* str(n) for n >= 0
RECURSIVE DecStr(_)
DecStr(n) == IF n < 10 THEN <<DigitOf(n)>> ELSE DecStr(n \div 10) \o <<DigitOf(n % 10)>>

\* f"__PROTECTED_{i}_{j}__"
Placeholder(i, j) ==
    <<"_", "_", "PROTECTED", "_">> \o DecStr(i) \o <<"_">> \o DecStr(j) \o <<"_", "_">>

\* protections[placeholder] = match on an insertion-ordered dict
DictSet(d, k, v) ==
    IF \E n \in 1..Len(d) : d[n][1] = k
    THEN [n \in 1..Len(d) |-> IF d[n][1] = k THEN <<k, v>> ELSE d[n]]
    ELSE Append(d, <<k, v>>)

\* the inner loop of protect_expressions for pattern number i
RECURSIVE ProtectLoop(_, _, _, _, _)
ProtectLoop(matches, i, j, protected_text, protections) ==
    IF j >= Len(matches)
    THEN [text |-> protected_text, protections |-> protections]
    ELSE LET match == matches[j + 1]
             placeholder == Placeholder(i, j)
         IN  ProtectLoop(matches, i, j + 1,
                         StrReplace(protected_text, match, placeholder),
                         DictSet(protections, placeholder, match))

\* protect_expressions(text, [DICE_PATTERN])
protect_expressions(text) == ProtectLoop(FindAll(text), 0, 0, text, << >>)

RECURSIVE RestoreLoop(_, _, _)
RestoreLoop(result, protections, n) ==
    IF n > Len(protections) THEN result
    ELSE RestoreLoop(StrReplace(result, protections[n][1], protections[n][2]),
                     protections, n + 1)

restore_expressions(text, protections) == RestoreLoop(text, protections, 1)

\* ENCODING_FIXES, in the order of the dict literal.  The characters outside
\* ASCII are written <name>: <a-circ> <euro> <tm> is the mis-decoded
\* apostrophe, <A-tilde> <copy> the mis-decoded e acute, and so on.
ENCODING_FIXES ==
    << << <<"<a-circ>", "<euro>", "<tm>">>, <<"'">> >>,
       << <<"<a-circ>", "<euro>", "<oe>">>, <<"<dquote>">> >>,
       << <<"<a-circ>", "<euro>">>, <<"<dquote>">> >>,
       << <<"<A-tilde>", "<copy>">>, <<"<e-acute>">> >>,
       << <<"<A-tilde>", " ">>, <<"<a-grave>">> >>,
       << <<"<A-tilde>", "<sect>">>, <<"<c-cedilla>">> >>,
       << <<"<A-tilde>", "<diaeresis>">>, <<"<e-grave>">> >>,
       << <<"<A-tilde>", "<acute>">>, <<"<o-circ>">> >> >>

RECURSIVE CleanLoop(_, _)
CleanLoop(result, n) ==
    IF n > Len(ENCODING_FIXES) THEN result
    ELSE CleanLoop(StrReplace(result, ENCODING_FIXES[n][1], ENCODING_FIXES[n][2]), n + 1)

clean_encoding(text) == IF text = << >> THEN text ELSE CleanLoop(text, 1)

\* re.sub(r"\s+", " ", text)
RECURSIVE CollapseSpaces(_, _)
CollapseSpaces(t, p) ==
    IF p > Len(t) THEN << >>
    ELSE IF IsSpace(t[p]) THEN <<" ">> \o CollapseSpaces(t, SpaceRunEnd(t, p))
         ELSE <<t[p]>> \o CollapseSpaces(t, p + 1)

\* str.strip()
RECURSIVE Strip(_)
Strip(t) ==
    IF t = << >> THEN t
    ELSE IF IsSpace(t[1]) THEN Strip(Tail(t))
    ELSE IF IsSpace(t[Len(t)]) THEN Strip(SubSeq(t, 1, Len(t) - 1))
    ELSE t

normalize_whitespace_bad(text) ==
    IF text = << >> THEN text ELSE Strip(SelectSeq(text, LAMBDA c : ~IsSpace(c)))

normalize_whitespace(text) ==
    IF text = << >> THEN text ELSE Strip(CollapseSpaces(text, 1))

------------------------------------------------------------------------------
(* Rules: re.sub with re.IGNORECASE *)

Stages == {"pre_translation", "post_translation", "final_cleanup"}

NoRules == [s \in Stages |-> << >>]

\* A rule pattern: a literal ("lit"), a literal between two \b ("word"), or a
\* pattern that does not compile ("bad")
Pat(kind, lit) == [kind |-> kind, lit |-> lit]

RaisesReError(pat) == pat.kind = "bad"

MatchAt(t, p, pat) ==
    LET n == Len(pat.lit)
    IN  /\ n > 0
        /\ p + n - 1 <= Len(t)
        /\ LowerSeq(SubSeq(t, p, p + n - 1)) = LowerSeq(pat.lit)
        /\ pat.kind = "word" => (Boundary(t, p) /\ Boundary(t, p + n))

RECURSIVE ReSubFrom(_, _, _, _)
ReSubFrom(t, p, pat, rep) ==
    IF p > Len(t) THEN << >>
    ELSE IF MatchAt(t, p, pat)
         THEN rep \o ReSubFrom(t, p + Len(pat.lit), pat, rep)
         ELSE <<t[p]>> \o ReSubFrom(t, p + 1, pat, rep)

\* re.sub(pattern, replacement, text, flags=re.IGNORECASE)
re_sub(pat, rep, t) == ReSubFrom(t, 1, pat, rep)

------------------------------------------------------------------------------
(* RuleEngine (bg3_translator_core.py): _rules maps a stage to a list of    *)
(* (pattern, replacement) pairs                                             *)

RuleEngineStep_bad(rule, result, text) ==
    IF RaisesReError(rule[1]) THEN result ELSE re_sub(rule[1], rule[2], text)

\* one iteration of the loop of RuleEngine.apply_rules
RuleEngineStep(rule, result, text) ==
    IF RaisesReError(rule[1]) THEN result ELSE re_sub(rule[1], rule[2], result)

RECURSIVE RuleEngineLoop(_, _, _, _)
RuleEngineLoop(rules, n, result, text) ==
    IF n > Len(rules) THEN result
    ELSE RuleEngineLoop(rules, n + 1, RuleEngineStep(rules[n], result, text), text)

RuleEngine_apply_rules(rules, text, stage) ==
    IF text = << >> \/ stage \notin DOMAIN rules THEN text
    ELSE RuleEngineLoop(rules[stage], 1, text, text)

------------------------------------------------------------------------------
(* DynamicRulesManager (dynamic_rules_manager.py)                           *)

\* Confidences are fractions of One, which stands for 1.0.  The confidences
\* given to the manager are eighths, which a float holds exactly, so that the
\* comparisons of the float averages agree with those of the exact averages;
\* One is a multiple of 10 and of 8 * k for k in 1..9, so that the threshold
\* and the frequency-weighted averages are integers.  Success rates are
\* fractions of RateOne, a power of ten, so that four 0.9 penalties are exact.
One == 20160
RateOne == 10000
Tenths(n) == n * (One \div 10)
Eighths(n) == n * (One \div 8)

\* a Rule (description and created_at are not modelled)
NewRule(name, pattern, replacement, stage, confidence, mod) ==
    [name |-> name, pattern |-> pattern, replacement |-> replacement,
     stage |-> stage, confidence |-> confidence, usage_count |-> 0,
     success_rate |-> RateOne, mod_specific |-> mod]

\* the rule store: rs.base and rs.learned map each stage to a list of rules,
\* rs.mod maps each loaded mod to such a map
Store(b, l, m) == [base |-> b, learned |-> l, mod |-> m]

InsertByKey(sorted, x) ==
    LET k == CHOOSE i \in 1..(Len(sorted) + 1) :
                 /\ \A j \in 1..(i - 1) : sorted[j].key >= x.key
                 /\ i = Len(sorted) + 1 \/ sorted[i].key < x.key
    IN  SubSeq(sorted, 1, k - 1) \o <<x>> \o SubSeq(sorted, k, Len(sorted))

RECURSIVE SortLoop(_, _, _)
SortLoop(items, n, sorted) ==
    IF n > Len(items) THEN sorted
    ELSE SortLoop(items, n + 1, InsertByKey(sorted, items[n]))

\* list.sort(key=..., reverse=True) on items [key, val]: descending and stable
SortDesc(items) == SortLoop(items, 1, << >>)

Refs(part, n) == [i \in 1..n |-> [part |-> part, idx |-> i]]

RuleAt(rs, stage, mod_name, ref) ==
    CASE ref.part = "base" -> rs.base[stage][ref.idx]
      [] ref.part = "learned" -> rs.learned[stage][ref.idx]
      [] ref.part = "mod" -> rs.mod[mod_name][stage][ref.idx]

\* the list built by the three extend calls of get_applicable_rules
ExtendedRefs(rs, stage, mod_name) ==
    Refs("base", Len(rs.base[stage]))
      \o Refs("learned", Len(rs.learned[stage]))
      \o (IF mod_name # "None" /\ mod_name \in DOMAIN rs.mod
          THEN Refs("mod", Len(rs.mod[mod_name][stage]))
          ELSE << >>)

ByConfidence(rs, stage, mod_name, refs) ==
    [i \in 1..Len(refs) |->
        [key |-> RuleAt(rs, stage, mod_name, refs[i]).confidence, val |-> refs[i]]]

SortRefs_bad(rs, stage, mod_name, refs) ==
    LET s == SortDesc(ByConfidence(rs, stage, mod_name,
                                   [i \in 1..Len(refs) |-> refs[Len(refs) + 1 - i]]))
    IN  [i \in 1..Len(s) |-> s[i].val]

\* rules.sort(key=lambda r: r.confidence, reverse=True)
SortRefs(rs, stage, mod_name, refs) ==
    LET s == SortDesc(ByConfidence(rs, stage, mod_name, refs))
    IN  [i \in 1..Len(s) |-> s[i].val]

\* get_applicable_rules, as references into the store
ApplicableRefs(rs, stage, mod_name) ==
    SortRefs(rs, stage, mod_name, ExtendedRefs(rs, stage, mod_name))

\* get_applicable_rules(stage, mod_name)
get_applicable_rules(rs, stage, mod_name) ==
    LET refs == ApplicableRefs(rs, stage, mod_name)
    IN  [i \in 1..Len(refs) |-> RuleAt(rs, stage, mod_name, refs[i])]

UpdateRule(rs, stage, mod_name, ref, rule) ==
    CASE ref.part = "base" -> [rs EXCEPT !.base[stage][ref.idx] = rule]
      [] ref.part = "learned" -> [rs EXCEPT !.learned[stage][ref.idx] = rule]
      [] ref.part = "mod" -> [rs EXCEPT !.mod[mod_name][stage][ref.idx] = rule]

Penalize_bad(rate) == rate

\* rule.success_rate *= 0.9
Penalize(rate) == (rate * 9) \div 10

\* the loop of DynamicRulesManager.apply_rules: the text and the store with
\* the usage counts and success rates it updated
RECURSIVE ManagerLoop(_, _, _, _, _, _)
ManagerLoop(refs, n, result, rs, stage, mod_name) ==
    IF n > Len(refs) THEN [text |-> result, rs |-> rs]
    ELSE LET rule == RuleAt(rs, stage, mod_name, refs[n])
         IN  IF RaisesReError(rule.pattern)
             THEN ManagerLoop(refs, n + 1, result,
                      UpdateRule(rs, stage, mod_name, refs[n],
                                 [rule EXCEPT !.success_rate = Penalize(@)]),
                      stage, mod_name)
             ELSE LET new == re_sub(rule.pattern, rule.replacement, result)
                  IN  ManagerLoop(refs, n + 1, new,
                          IF new # result
                          THEN UpdateRule(rs, stage, mod_name, refs[n],
                                          [rule EXCEPT !.usage_count = @ + 1])
                          ELSE rs,
                          stage, mod_name)

Manager_apply_rules(rs, text, stage, mod_name) ==
    IF text = << >> THEN [text |-> text, rs |-> rs]
    ELSE ManagerLoop(ApplicableRefs(rs, stage, mod_name), 1, text, rs, stage, mod_name)

------------------------------------------------------------------------------
(* DynamicRulesManager: learning candidates                                 *)

\* learning_config at its defaults; enabled and auto_improve are True
min_frequency_for_pattern == 3
confidence_threshold == Tenths(8)
\* learning_config["max_learned_rules"], configured to a small cap
max_learned_rules == 2

\* None as a detected pattern and as a suggested replacement
NonePattern == Pat("none", << >>)
NoneText == <<"<None>">>

\* the truth value of an Optional[str]
HasPattern(pat) == pat.kind # "none"
HasText(t) == t # NoneText /\ t # << >>

RECURSIVE NonSpaceRunEnd(_, _)
NonSpaceRunEnd(t, i) ==
    IF i <= Len(t) /\ ~IsSpace(t[i]) THEN NonSpaceRunEnd(t, i + 1) ELSE i

\* str.split()
RECURSIVE SplitFrom(_, _)
SplitFrom(t, p) ==
    IF p > Len(t) THEN << >>
    ELSE IF IsSpace(t[p]) THEN SplitFrom(t, p + 1)
    ELSE LET e == NonSpaceRunEnd(t, p)
         IN  <<SubSeq(t, p, e - 1)>> \o SplitFrom(t, e)

Split(t) == SplitFrom(t, 1)

MinOf(S) == CHOOSE i \in S : \A j \in S : i <= j

MaxOf(S) == CHOOSE i \in S : \A j \in S : j <= i

FirstDiff_bad(a, b) ==
    LET d == { i \in 1..Len(a) : a[i] # b[i] }
    IN  IF d = { } THEN 0 ELSE MaxOf(d)

\* the first index at which two lists of equal length differ, 0 if none
FirstDiff(a, b) ==
    LET d == { i \in 1..Len(a) : a[i] # b[i] }
    IN  IF d = { } THEN 0 ELSE MinOf(d)

CommonPrefixLen(a, b) ==
    LET m == IF Len(a) < Len(b) THEN Len(a) ELSE Len(b)
    IN  CHOOSE k \in 0..m :
            /\ SubSeq(a, 1, k) = SubSeq(b, 1, k)
            /\ k = m \/ a[k + 1] # b[k + 1]

Reverse(s) == [i \in 1..Len(s) |-> s[Len(s) + 1 - i]]

\* The second tier of _detect_improvement_pattern, for two texts that differ
\* in one segment whose two sides share no character: SequenceMatcher then
\* yields equal / replace, insert or delete / equal.
DiffSegment(original, improved) ==
    LET p == CommonPrefixLen(original, improved)
        ro == SubSeq(original, p + 1, Len(original))
        ri == SubSeq(improved, p + 1, Len(improved))
        s == CommonPrefixLen(Reverse(ro), Reverse(ri))
        om == SubSeq(ro, 1, Len(ro) - s)
        im == SubSeq(ri, 1, Len(ri) - s)
    IN  IF /\ StrLen(om) > 2
           /\ StrLen(im) > 2
           /\ Strip(om) # << >>
           /\ Strip(im) # << >>
        THEN <<Pat("lit", Strip(om)), Strip(im)>>
        ELSE <<NonePattern, NoneText>>

\* _detect_improvement_pattern(original, improved): (pattern, replacement)
detect_improvement_pattern(original, improved) ==
    LET original_words == Split(original)
        improved_words == Split(improved)
        i == IF Len(original_words) = Len(improved_words)
             THEN FirstDiff(original_words, improved_words) ELSE 0
    IN  IF i > 0
        THEN <<Pat("word", original_words[i]), improved_words[i]>>
        ELSE DiffSegment(original, improved)

\* LearningCandidate(...) as learn_from_llm_improvement creates it
NewCandidate(source_text, original_translation, improved_translation, confidence) ==
    LET d == detect_improvement_pattern(original_translation, improved_translation)
    IN  [source_text |-> source_text,
         original_translation |-> original_translation,
         improved_translation |-> improved_translation,
         improvement_source |-> "llm",
         confidence |-> confidence, frequency |-> 1,
         detected_pattern |-> d[1], suggested_replacement |-> d[2]]

RECURSIVE SumSeq(_)
SumSeq(s) == IF s = << >> THEN 0 ELSE s[1] + SumSeq(Tail(s))

total_frequency_bad(candidates) == Len(candidates)

\* sum(c.frequency for c in candidates)
total_frequency(candidates) ==
    SumSeq([i \in 1..Len(candidates) |-> candidates[i].frequency])

\* sum(c.confidence * c.frequency for c in candidates) / total_frequency
avg_confidence(candidates) ==
    SumSeq([i \in 1..Len(candidates) |->
               candidates[i].confidence * candidates[i].frequency])
        \div total_frequency(candidates)

\* the keys of pattern_groups, in insertion order
RECURSIVE PatternKeys(_, _, _)
PatternKeys(cands, n, keys) ==
    IF n > Len(cands) THEN keys
    ELSE LET pat == cands[n].detected_pattern
         IN  PatternKeys(cands, n + 1,
                 IF HasPattern(pat) /\ ~(\E k \in 1..Len(keys) : keys[k] = pat)
                 THEN Append(keys, pat) ELSE keys)

\* pattern_groups[pattern]
GroupOf(cands, pattern) ==
    SelectSeq(cands, LAMBDA c : c.detected_pattern = pattern)

\* Counter(...).most_common(1)[0][0] on the list of suggested replacements:
\* the first one among those that occur most often
most_common_replacement(reps) ==
    LET count(x) == Cardinality({ i \in 1..Len(reps) : reps[i] = x })
        best == { i \in 1..Len(reps) :
                    \A j \in 1..Len(reps) : count(reps[j]) <= count(reps[i]) }
    IN  reps[MinOf(best)]

\* list.remove(x) when x is in the list
RemoveFirst(list, x) ==
    LET at == { i \in 1..Len(list) : list[i] = x }
    IN  IF at = { } THEN list
        ELSE SubSeq(list, 1, MinOf(at) - 1) \o SubSeq(list, MinOf(at) + 1, Len(list))

RECURSIVE RemoveEach(_, _, _)
RemoveEach(list, xs, n) ==
    IF n > Len(xs) THEN list ELSE RemoveEach(RemoveFirst(list, xs[n]), xs, n + 1)

------------------------------------------------------------------------------
(* DynamicRulesManager: promotion, eviction, persistence and review         *)
(*                                                                          *)
(* The operations work on st = [learned, cands, file, created, evicted]:    *)
(* learned_rules, learning_candidates and the content of the learned-rules  *)
(* file, with the patterns of the rules created and the rules evicted by    *)
(* the last cleanup during the operation.                                   *)

StageOrder == <<"pre_translation", "post_translation", "final_cleanup">>

\* rule_score of _cleanup_learned_rules
rule_score(rule) == rule.confidence * (1 + rule.usage_count) * rule.success_rate

ByScore(rules) ==
    [i \in 1..Len(rules) |-> [key |-> rule_score(rules[i]), val |-> rules[i]]]

CleanupStage_bad(rules) ==
    IF Len(rules) > max_learned_rules
    THEN [kept |-> SubSeq(rules, Len(rules) - max_learned_rules + 1, Len(rules)),
          evicted |-> SubSeq(rules, 1, Len(rules) - max_learned_rules)]
    ELSE [kept |-> rules, evicted |-> << >>]

\* the body of the loop of _cleanup_learned_rules: the rules kept and the
\* rules dropped
CleanupStage(rules) ==
    IF Len(rules) > max_learned_rules
    THEN LET s == SortDesc(ByScore(rules))
         IN  [kept |-> [i \in 1..max_learned_rules |-> s[i].val],
              evicted |-> [i \in 1..(Len(s) - max_learned_rules) |->
                              s[max_learned_rules + i].val]]
    ELSE [kept |-> rules, evicted |-> << >>]

\* what save_learned_rules writes
FileOf(learned, cands) ==
    [exists |-> TRUE, learned_rules |-> learned, learning_candidates |-> cands]

NoFile == [exists |-> FALSE, learned_rules |-> NoRules, learning_candidates |-> << >>]

\* save_learned_rules: _cleanup_learned_rules, then the file is written
save_learned_rules(st) ==
    LET c == [s \in Stages |-> CleanupStage(st.learned[s])]
        kept == [s \in Stages |-> c[s].kept]
    IN  [st EXCEPT !.learned = kept,
                   !.file = FileOf(kept, st.cands),
                   !.evicted = c[StageOrder[1]].evicted \o c[StageOrder[2]].evicted
                                 \o c[StageOrder[3]].evicted]

\* f"learned_{n}_{now:%Y%m%d_%H%M%S}", with the clock in seconds
LearnedName(n, t) == <<"learned", n, t>>

\* _create_learned_rule(pattern, replacement, candidates) at time t
create_learned_rule(st, pattern, replacement, candidates, t) ==
    LET stage == "post_translation"
        rule == NewRule(LearnedName(Len(st.learned[stage]), t), pattern, replacement,
                        stage, avg_confidence(candidates), "None")
    IN  save_learned_rules(
            [st EXCEPT !.learned[stage] = Append(@, rule),
                       !.cands = RemoveEach(@, candidates, 1),
                       !.created = Append(@, pattern)])

\* the criteria of _evaluate_learning_candidates for one group
MeetsCriteria(candidates) ==
    /\ total_frequency(candidates) >= min_frequency_for_pattern
    /\ avg_confidence(candidates) >= confidence_threshold

SuggestedReplacements(candidates) ==
    LET with == SelectSeq(candidates, LAMBDA c : HasText(c.suggested_replacement))
    IN  [i \in 1..Len(with) |-> with[i].suggested_replacement]

\* the loop of _evaluate_learning_candidates over pattern_groups.items()
RECURSIVE EvaluateLoop(_, _, _, _, _)
EvaluateLoop(keys, n, grouped, st, t) ==
    IF n > Len(keys) THEN st
    ELSE LET candidates == GroupOf(grouped, keys[n])
             reps == SuggestedReplacements(candidates)
         IN  EvaluateLoop(keys, n + 1, grouped,
                 IF MeetsCriteria(candidates) /\ reps # << >>
                 THEN create_learned_rule(st, keys[n], most_common_replacement(reps),
                                          candidates, t)
                 ELSE st,
                 t)

\* _evaluate_learning_candidates() at time t
evaluate_learning_candidates(st, t) ==
    IF st.cands = << >> THEN st
    ELSE EvaluateLoop(PatternKeys(st.cands, 1, << >>), 1, st.cands, st, t)

FindCandidate_bad(cands, source_text, original_translation) == 0

\* the index of the candidate with this source and original translation, 0
\* if there is none
FindCandidate(cands, source_text, original_translation) ==
    LET at == { i \in 1..Len(cands) :
                  /\ cands[i].source_text = source_text
                  /\ cands[i].original_translation = original_translation }
    IN  IF at = { } THEN 0 ELSE MinOf(at)

\* learn_from_llm_improvement(source_text, original_translation,
\* improved_translation, confidence) at time t
learn_from_llm_improvement(st, source_text, original_translation, improved_translation, confidence, t) ==
    LET i == FindCandidate(st.cands, source_text, original_translation)
    IN  IF i > 0
        THEN [st EXCEPT !.cands[i].frequency = @ + 1,
                        !.cands[i].confidence = IF confidence > @ THEN confidence ELSE @]
        ELSE LET new == [st EXCEPT !.cands =
                            Append(@, NewCandidate(source_text, original_translation,
                                                   improved_translation, confidence))]
             IN  IF confidence >= confidence_threshold
                 THEN evaluate_learning_candidates(new, t)
                 ELSE new

\* export_rules_for_review: the entries of rules_for_review
export_rules_for_review(learned) ==
    LET entries(s) == [i \in 1..Len(learned[s]) |->
                          [rule |-> learned[s][i], approved |-> "None"]]
    IN  entries(StageOrder[1]) \o entries(StageOrder[2]) \o entries(StageOrder[3])

\* one iteration of the loop of import_reviewed_rules
ImportEntry(learned, entry) ==
    LET rule == entry.rule
        stage_rules == learned[rule.stage]
        at == { i \in 1..Len(stage_rules) : stage_rules[i].name = rule.name }
    IN  CASE entry.approved = "True" ->
               IF at # { }
               THEN [learned EXCEPT ![rule.stage][MinOf(at)] =
                        [@ EXCEPT !.pattern = rule.pattern,
                                  !.replacement = rule.replacement,
                                  !.confidence = rule.confidence]]
               ELSE [learned EXCEPT ![rule.stage] = Append(@, rule)]
          [] entry.approved = "False" ->
               [learned EXCEPT ![rule.stage] =
                   SelectSeq(@, LAMBDA r : r.name # rule.name)]
          [] OTHER -> learned

RECURSIVE ImportLoop(_, _, _)
ImportLoop(entries, n, learned) ==
    IF n > Len(entries) THEN learned
    ELSE ImportLoop(entries, n + 1, ImportEntry(learned, entries[n]))

CountApproved(entries, verdict) ==
    Cardinality({ i \in 1..Len(entries) : entries[i].approved = verdict })

\* the keys Rule.from_dict reads with data[...], and those the branch of a
\* rejected entry reads
FromDictKeys == {"name", "pattern", "replacement", "description", "stage"}
RejectedKeys == {"name", "stage"}

\* the iteration of the loop of import_reviewed_rules on this entry raises
\* KeyError; an exported entry has every key, an entry written by hand has
\* the keys it lists
RaisesKeyError(entry) ==
    /\ "keys" \in DOMAIN entry
    /\ \/ entry.approved = "True" /\ ~(FromDictKeys \subseteq entry.keys)
       \/ entry.approved = "False" /\ ~(RejectedKeys \subseteq entry.keys)

\* the position of the first entry that raises, Len(entries) + 1 if none does
FirstKeyError(entries) ==
    LET at == { i \in 1..Len(entries) : RaisesKeyError(entries[i]) }
    IN  IF at = { } THEN Len(entries) + 1 ELSE MinOf(at)

\* import_reviewed_rules on a file with these entries: the state and the
\* value returned; an exception leaves the loop, nothing is saved and 0 is
\* returned
import_reviewed_rules(st, entries) ==
    LET n == FirstKeyError(entries)
        read == SubSeq(entries, 1, n - 1)
        after == [st EXCEPT !.learned = ImportLoop(read, 1, st.learned)]
        approved_count == CountApproved(entries, "True")
        rejected_count == CountApproved(entries, "False")
    IN  IF n <= Len(entries)
        THEN [st |-> after, ret |-> 0]
        ELSE [st |-> IF approved_count > 0 \/ rejected_count > 0
                     THEN save_learned_rules(after) ELSE after,
              ret |-> approved_count]

------------------------------------------------------------------------------
(* GlossaryManager (glossary_manager.py)                                    *)

\* The attributes of a GlossaryManager instance.  The class body holds only
\* its docstring: learn_from_llm_improvement is defined at module level, and
\* __init__, get_glossary, add_terms and the other methods are nested in that
\* function's body after its return statement.
GlossaryManagerAttrs == { }

\* entries of MAIN_GLOSSARY, in the order of the dict literal
MAIN_GLOSSARY ==
    << << <<"Armor", " ", "Class">>, <<"Classe", " ", "d", "'", "armure">> >>,
       << <<"Heavy", " ", "Armor">>, <<"armure", " ", "lourde">> >>,
       << <<"Armor">>, <<"Armure">> >> >>

\* the nested function get_glossary: the entries by descending term length
get_glossary(glossary) ==
    LET s == SortDesc([i \in 1..Len(glossary) |->
                          [key |-> StrLen(glossary[i][1]), val |-> glossary[i]]])
    IN  [i \in 1..Len(s) |-> s[i].val]

RECURSIVE GlossaryLoop(_, _, _)
GlossaryLoop(glossary, n, result) ==
    IF n > Len(glossary) THEN result
    ELSE GlossaryLoop(glossary, n + 1,
                      re_sub(Pat("word", glossary[n][1]), glossary[n][2], result))

\* DeepLTranslator._apply_glossary with the shipped GlossaryManager
apply_glossary(text) ==
    IF "get_glossary" \notin GlossaryManagerAttrs THEN text
    ELSE GlossaryLoop(get_glossary(MAIN_GLOSSARY), 1, text)

------------------------------------------------------------------------------
(* TranslationCache and DeepLTranslator.process_text                        *)

BoolStr(b) == IF b THEN "True" ELSE "False"

CacheKey_bad(cleaned, flag) == IF flag THEN cleaned \o <<"_", "True">> ELSE cleaned

\* f"{cleaned}_{self.config.use_llm_optimization}"
CacheKey(cleaned, flag) == cleaned \o <<"_", BoolStr(flag)>>

CacheGet_bad(c, h, m, key) ==
    IF key \in DOMAIN c
    THEN [value |-> c[key], found |-> TRUE, hits |-> h, misses |-> m + 1]
    ELSE [value |-> << >>, found |-> FALSE, hits |-> h, misses |-> m + 1]

\* TranslationCache.get: the value (None is found = FALSE) and the counters
CacheGet(c, h, m, key) ==
    IF key \in DOMAIN c
    THEN [value |-> c[key], found |-> TRUE, hits |-> h + 1, misses |-> m]
    ELSE [value |-> << >>, found |-> FALSE, hits |-> h, misses |-> m + 1]

\* TranslationCache.set
CacheSet(c, key, value) ==
    [k \in DOMAIN c \cup {key} |-> IF k = key THEN value ELSE c[k]]

\* the machine-translation collaborator: it raises, returns its input, or
\* returns a translation of it
MTOutcomes == {"raise", "identity", "french"}

French(c) ==
    CASE c = "wearers" -> "porteurs"
      [] c = "b" -> "be"
      [] OTHER -> c

Translate(mt, t) ==
    IF mt = "french" THEN [i \in 1..Len(t) |-> French(t[i])] ELSE t

\* the refinement collaborator as seen by _optimize_with_llm: an exception or
\* a response that is not ok ("fail"), or a stripped content that is another
\* text ("improved") or empty ("empty"); a content equal to the translation
\* has the effect of "fail"
LLMOutcomes == {"fail", "improved", "empty"}

optimize_with_llm(llm, translation) ==
    CASE llm = "fail" -> translation
      [] llm = "improved" -> translation \o <<" ", "!">>
      [] llm = "empty" -> << >>

\* self.rule_engine.apply_rules(text, stage): the text and the rule store
ApplyStage(engine, rules, rs, text, stage) ==
    IF engine = "RuleEngine"
    THEN [text |-> RuleEngine_apply_rules(rules, text, stage), rs |-> rs]
    ELSE Manager_apply_rules(rs, text, stage, "None")

OnTranslateError_bad(text, cleaned) == cleaned

\* the except branch of process_text: return text
OnTranslateError(text, cleaned) == text

\* not text or not text.strip()
IsBlank(text) == Strip(text) = << >>

\* process_text(text, context) from the state st = [engine, rules, rs, gm,
\* flag, cache, hits, misses], with the collaborators' outcomes mt and llm;
\* has_key is context and context.get("openrouter_key").  The result holds
\* the returned text, the new cache, counters and rule store, which path
\* was taken ("blank", "hit", "failed" or "stored"), and for a completed run
\* the text sent to the translation collaborator, the translation received
\* from it, and the translation after the post stage and after the
\* refinement step.
process_text(st, text, has_key, mt, llm) ==
    IF IsBlank(text)
    THEN [out |-> text, cache |-> st.cache, hits |-> st.hits, misses |-> st.misses,
          rs |-> st.rs, path |-> "blank", refined |-> FALSE,
          sent |-> << >>, received |-> << >>, post |-> << >>, translated |-> << >>]
    ELSE
    LET cleaned == normalize_whitespace(clean_encoding(text))
        cache_key == CacheKey(cleaned, st.flag)
        got == CacheGet(st.cache, st.hits, st.misses, cache_key)
    IN  IF got.found /\ got.value # << >>
        THEN [out |-> got.value, cache |-> st.cache, hits |-> got.hits,
              misses |-> got.misses, rs |-> st.rs, path |-> "hit", refined |-> FALSE,
              sent |-> << >>, received |-> << >>, post |-> << >>,
              translated |-> << >>]
        ELSE
        LET prot == protect_expressions(cleaned)
            pre == ApplyStage(st.engine, st.rules, st.rs, prot.text, "pre_translation")
            preprocessed == IF st.gm # "None" THEN apply_glossary(pre.text) ELSE pre.text
        IN  IF mt = "raise"
            THEN [out |-> OnTranslateError(text, cleaned), cache |-> st.cache,
                  hits |-> got.hits, misses |-> got.misses, rs |-> pre.rs,
                  path |-> "failed", refined |-> FALSE,
                  sent |-> preprocessed, received |-> << >>, post |-> << >>,
                  translated |-> << >>]
            ELSE
            LET post == ApplyStage(st.engine, st.rules, pre.rs,
                                   Translate(mt, preprocessed), "post_translation")
                refine == st.flag /\ has_key
                translated == IF refine THEN optimize_with_llm(llm, post.text)
                              ELSE post.text
                final == ApplyStage(st.engine, st.rules, post.rs, translated,
                                    "final_cleanup")
                final_result == restore_expressions(final.text, prot.protections)
            IN  [out |-> final_result,
                 cache |-> CacheSet(st.cache, cache_key, final_result),
                 hits |-> got.hits, misses |-> got.misses, rs |-> final.rs,
                 path |-> "stored", refined |-> refine,
                 sent |-> preprocessed, received |-> Translate(mt, preprocessed),
                 post |-> post.text, translated |-> translated]

------------------------------------------------------------------------------
(* Inputs of the protect / restore specification *)

MaxPieces == 4

Pieces ==
    { <<"1", "d", "4">>, <<"1", "d", "4", "+", "2">>, <<"2", "d", "6">>,
      <<" ">>, <<"a">>, <<"+">>, <<"1", "D", "4">>,
      <<"_", "_", "PROTECTED", "_", "0", "_", "0">>,
      <<"_", "_", "PROTECTED", "_", "0", "_", "0", "_", "_">> }

RECURSIVE Concats(_)
Concats(n) ==
    IF n = 0 THEN { << >> }
    ELSE LET prev == Concats(n - 1)
         IN  prev \cup { s \o p : s \in prev, p \in Pieces }

ProtectTexts == Concats(MaxPieces)

HasPlaceholderLiteral(t) ==
    \E j \in 0..MaxPieces : Contains(t, Placeholder(0, j))

------------------------------------------------------------------------------
(* Rule files and texts of the pipeline specification *)

MaxCalls == 2

BoltLoaded == <<"Bolt", " ", "Loaded">>
\* "Carreau charge" with an acute accent on the last letter
CarreauCharge == <<"Carreau", " ", "charge">>
HeavyArmorWearers == <<"Heavy", " ", "Armor", " ", "wearers">>

\* rule files: per stage, the (pattern, replacement) pairs in file order
RuleFiles ==
    [ none |-> NoRules,
      chain |-> [NoRules EXCEPT
                   !["pre_translation"] = << <<Pat("lit", BoltLoaded), <<"X">> >> >>,
                   !["post_translation"] = << <<Pat("lit", <<"X">>), CarreauCharge>> >>],
      stage |-> [NoRules EXCEPT
                   !["post_translation"] = << <<Pat("lit", BoltLoaded), <<"X">> >>,
                                              <<Pat("lit", <<"X">>), CarreauCharge>> >>],
      shift |-> [NoRules EXCEPT
                   !["pre_translation"] = << <<Pat("word", <<"b">>), <<"c">> >>,
                                             <<Pat("word", <<"a">>), <<"b">> >> >>],
      erase |-> [NoRules EXCEPT
                   !["final_cleanup"] = << <<Pat("lit", <<"X">>), << >> >>,
                                           <<Pat("bad", <<"(">>), <<"a">> >> >>] ]

\* _load_base_rules: the rules of a file as base rules
BaseRulesOf(file) ==
    [s \in Stages |->
        [i \in 1..Len(file[s]) |->
            NewRule(<<s, i>>, file[s][i][1], file[s][i][2], s, One, "None")]]

\* mis-decoded e acute, a double space and a dice expression
EncodedDice == <<"<A-tilde>", "<copy>", " ", " ", "2", "d", "6">>

\* the texts translated under each rule file
PipeTexts ==
    [ none |-> { HeavyArmorWearers, <<"a", " ", " ", "b">>, EncodedDice, <<" ">> },
      chain |-> { BoltLoaded, <<"X">> },
      stage |-> { BoltLoaded, <<"a", " ", " ", "b">> },
      shift |-> { <<"a", " ", " ", "b">>, <<"b">> },
      erase |-> { <<"X">>, <<"X", " ", "a">> } ]

NoCall ==
    [text |-> << >>, mt |-> "none", llm |-> "none",
     out |-> << >>, path |-> "none", dhits |-> 0, dmisses |-> 0,
     post |-> << >>, translated |-> << >>, sent |-> << >>]

\* the state process_text reads
TranslatorState ==
    [engine |-> rule_engine, rules |-> re_rules,
     rs |-> Store(base_rules, learned_rules, mod_specific_rules),
     gm |-> glossary_manager, flag |-> use_llm_optimization,
     cache |-> cache, hits |-> hits, misses |-> misses]

NoBatch == [success |-> FALSE, translated_files |-> 0, total_files |-> 0]

\* no thread besides the caller's
ThreadParked ==
    /\ threads = << >>
    /\ lookups = 0

RunParked ==
    /\ parallel_translation = FALSE
    /\ openrouter_key = FALSE
    /\ detected_mod = "None"
    /\ xml_files = << >>
    /\ results = << >>
    /\ batch = NoBatch
    /\ run_pc = "idle"

ProtParked ==
    /\ px_text = << >>
    /\ px_protected = << >>
    /\ px_protections = << >>
    /\ px_restored = << >>
    /\ px_pc = "off"

PipeParked ==
    /\ use_llm_optimization = FALSE
    /\ rule_engine = "RuleEngine"
    /\ glossary_manager = "None"
    /\ cache = << >>
    /\ hits = 0
    /\ misses = 0
    /\ re_rules = NoRules
    /\ calls = 0
    /\ last_call = NoCall
    /\ prev_call = NoCall
    /\ rules_file = "none"

StoreParked ==
    /\ base_rules = NoRules
    /\ learned_rules = NoRules
    /\ mod_specific_rules = << >>

NoOp ==
    [op |-> "none", ret |-> 0, obs |-> "none", confidence |-> 0,
     created |-> << >>, evicted |-> << >>, verdicts |-> << >>, extras |-> << >>,
     text |-> << >>, stage |-> "none", mod_name |-> "None", out |-> << >>,
     file |-> "none"]

LearnParked ==
    /\ learning_candidates = << >>
    /\ learned_file = NoFile
    /\ now = 0
    /\ last_op = NoOp
    /\ learns = 0
    /\ imports = 0

ProtInit ==
    /\ RunParked
    /\ ThreadParked
    /\ px_text \in ProtectTexts
    /\ px_protected = << >>
    /\ px_protections = << >>
    /\ px_restored = << >>
    /\ px_pc = "start"
    /\ PipeParked
    /\ StoreParked
    /\ LearnParked

Protect ==
    /\ px_pc = "start"
    /\ LET r == protect_expressions(px_text)
       IN  /\ px_protected' = r.text
           /\ px_protections' = r.protections
    /\ px_pc' = "protected"
    /\ UNCHANGED <<px_text, px_restored>>
    /\ UNCHANGED <<transVars, engineVars, storeVars, callVars, learnVars, runVars, threadVars>>

Restore ==
    /\ px_pc = "protected"
    /\ px_restored' = restore_expressions(px_protected, px_protections)
    /\ px_pc' = "restored"
    /\ UNCHANGED <<px_text, px_protected, px_protections>>
    /\ UNCHANGED <<transVars, engineVars, storeVars, callVars, learnVars, runVars, threadVars>>

ProtNext == Protect \/ Restore

SpecProtect == ProtInit /\ [][ProtNext]_vars

------------------------------------------------------------------------------
(* The pipeline: a DeepLTranslator over a RuleEngine (BG3ModTranslator) or   *)
(* over a DynamicRulesManager (EnhancedBG3Translator)                        *)

PipeInit ==
    /\ ProtParked
    /\ RunParked
    /\ ThreadParked
    /\ use_llm_optimization \in BOOLEAN
    /\ glossary_manager \in {"None", "GlossaryManager"}
    /\ cache = << >>
    /\ hits = 0
    /\ misses = 0
    /\ rules_file \in DOMAIN RuleFiles
    /\ \E f \in {rules_file} :
          \/ /\ rule_engine = "RuleEngine"
             /\ re_rules = RuleFiles[f]
             /\ base_rules = NoRules
          \/ /\ rule_engine = "DynamicRulesManager"
             /\ re_rules = NoRules
             /\ base_rules = BaseRulesOf(RuleFiles[f])
    /\ learned_rules = NoRules
    /\ mod_specific_rules = << >>
    /\ calls = 0
    /\ last_call = NoCall
    /\ prev_call = NoCall
    /\ LearnParked

ProcessText(text, has_key, mt, llm) ==
    /\ calls < MaxCalls
    /\ \E r \in {process_text(TranslatorState, text, has_key, mt, llm)} :
          /\ cache' = r.cache
          /\ hits' = r.hits
          /\ misses' = r.misses
          /\ base_rules' = r.rs.base
          /\ learned_rules' = r.rs.learned
          /\ mod_specific_rules' = r.rs.mod
          /\ last_call' =
                [text |-> text,
                 mt |-> IF r.path \in {"failed", "stored"} THEN mt ELSE "none",
                 llm |-> IF r.refined THEN llm ELSE "none",
                 out |-> r.out, path |-> r.path,
                 dhits |-> r.hits - hits, dmisses |-> r.misses - misses,
                 post |-> r.post, translated |-> r.translated, sent |-> r.sent]
    /\ prev_call' = last_call
    /\ calls' = calls + 1
    /\ UNCHANGED <<use_llm_optimization, rule_engine, glossary_manager, re_rules,
                   rules_file>>
    /\ UNCHANGED <<threadVars, runVars, protVars, learnVars>>

\* TranslationCache.clear
ClearCache ==
    /\ cache # << >>
    /\ cache' = << >>
    /\ hits' = 0
    /\ misses' = 0
    /\ last_call' = NoCall
    /\ prev_call' = NoCall
    /\ UNCHANGED <<use_llm_optimization, rule_engine, glossary_manager, re_rules,
                   calls, rules_file>>
    /\ UNCHANGED <<threadVars, runVars, protVars, storeVars, learnVars>>

PipeNext ==
    \/ \E text \in PipeTexts[rules_file], has_key \in BOOLEAN, mt \in MTOutcomes :
          \E llm \in (IF use_llm_optimization /\ has_key /\ mt # "raise"
                       THEN LLMOutcomes ELSE {"fail"}) :
              ProcessText(text, has_key, mt, llm)
    \/ ClearCache

SpecPipe == PipeInit /\ [][PipeNext]_vars

------------------------------------------------------------------------------
(* The rules manager: a DynamicRulesManager that learns from observed        *)
(* improvements, applies its rules, and goes through the review round trip  *)

MaxFreq == 2
MaxLearns == 6
MaxImports == 2
MaxClock == 1
MaxUsage == 1
MaxPenalties == 2

\* the success rate after n penalties
RECURSIVE PenalizeTimes(_, _)
PenalizeTimes(rate, n) == IF n = 0 THEN rate ELSE PenalizeTimes(Penalize(rate), n - 1)

\* observed improvements (source text, original and improved translation):
\* three that replace the word "greve", one that only adds a space, one whose
\* improved translation is the original and one whose improved translation is
\* empty
Observations ==
    [ o1 |-> [source_text |-> <<"s1">>,
              original |-> <<"grande", " ", "greve">>,
              improved |-> <<"grande", " ", "frappe">>],
      o2 |-> [source_text |-> <<"s2">>,
              original |-> <<"une", " ", "greve">>,
              improved |-> <<"une", " ", "frappe">>],
      o3 |-> [source_text |-> <<"s3">>,
              original |-> <<"la", " ", "greve">>,
              improved |-> <<"la", " ", "attaque">>],
      o4 |-> [source_text |-> <<"s4">>,
              original |-> <<"a", " ", "b">>,
              improved |-> <<"a", " ", " ", "b">>],
      o5 |-> [source_text |-> <<"s5">>,
              original |-> <<"la", " ", "greve">>,
              improved |-> <<"la", " ", "greve">>],
      o6 |-> [source_text |-> <<"s6">>,
              original |-> <<"une", " ", "greve">>,
              improved |-> << >>] ]

\* the observations of the learning specification, with confidences 0.75
\* and 0.875 on either side of the confidence threshold
LearnInputs ==
    { <<"o1", Eighths(7)>>, <<"o2", Eighths(7)>>, <<"o3", Eighths(6)>>,
      <<"o3", Eighths(7)>>, <<"o4", Eighths(6)>> }

\* the observations of the specification of observations that change nothing
ObserveInputs ==
    { <<"o1", Eighths(7)>>, <<"o5", Eighths(7)>>, <<"o5", Eighths(6)>>,
      <<"o6", Eighths(7)>> }

\* the observations of the review specification
ReviewInputs == { <<"o1", Eighths(7)>>, <<"o2", Eighths(7)>>, <<"o3", Eighths(7)>> }

ManagerBaseFile ==
    [NoRules EXCEPT !["post_translation"] = << <<Pat("lit", <<"X">>), <<"Y">> >> >>]

ModNames == { "BetterCrossbows" }

\* the rule file of a mod: a pattern that does not compile, then a rule for
\* the word "greve"
ModRuleFile ==
    [NoRules EXCEPT
       !["post_translation"] = << <<Pat("bad", <<"(">>), <<"a">> >>,
                                  <<Pat("word", <<"greve">>), <<"tir">> >> >>]

\* load_mod_specific_rules: the rules a mod's file adds
ModRulesOf(mod_name, file) ==
    [s \in Stages |->
        [i \in 1..Len(file[s]) |->
            NewRule(<<mod_name, s, i>>, file[s][i][1], file[s][i][2], s, One, mod_name)]]

ManagerTexts == { <<"la", " ", "greve">> }
RulesTexts == ManagerTexts \cup { <<"une", " ", "salve">> }

\* what a reviewer writes in an exported entry
Verdicts == { "True", "False", "None" }
RevisedReplacement == <<"coup">>

\* the exported entries with the reviewer's verdicts; an approved entry gets
\* a modified replacement
Mark(entries, verdicts) ==
    [i \in 1..Len(entries) |->
        IF verdicts[i] = "True"
        THEN [rule |-> [entries[i].rule EXCEPT !.replacement = RevisedReplacement],
              approved |-> "True"]
        ELSE [entries[i] EXCEPT !.approved = verdicts[i]]]

\* approved entries a reviewer adds by hand, with confidences 0.5, 0.75, 1.0
\* and 0.875
ManualEntry(n, word, replacement, confidence) ==
    [rule |-> NewRule(<<"manual", n, 0>>, Pat("word", <<word>>), <<replacement>>,
                      "post_translation", confidence, "None"),
     approved |-> "True"]

ManualEntries ==
    << ManualEntry(1, "salve", "volee", Eighths(4)),
       ManualEntry(2, "trait", "carreau", Eighths(6)),
       ManualEntry(3, "arc", "arbalete", One),
       ManualEntry(4, "dard", "fleche", Eighths(7)) >>

\* what the reviewer adds in the review and in the rules specification
ReviewExtras == { << >>, SubSeq(ManualEntries, 1, 2) }
RulesExtras ==
    { << >>, <<ManualEntries[1], ManualEntries[3]>>, SubSeq(ManualEntries, 1, 3),
      ManualEntries }

ManagerState ==
    [learned |-> learned_rules, cands |-> learning_candidates, file |-> learned_file,
     created |-> << >>, evicted |-> << >>]

ManagerInit ==
    /\ ProtParked
    /\ RunParked
    /\ ThreadParked
    /\ PipeParked
    /\ base_rules = BaseRulesOf(ManagerBaseFile)
    /\ learned_rules = NoRules
    /\ mod_specific_rules = << >>
    /\ LearnParked

\* learn_from_llm_improvement(source_text, original, improved, confidence)
Learn(o, confidence) ==
    /\ learns < MaxLearns
    /\ learns' = learns + 1
    /\ UNCHANGED imports
    /\ LET i == FindCandidate(learning_candidates, Observations[o].source_text,
                              Observations[o].original)
       IN  i > 0 => learning_candidates[i].frequency < MaxFreq
    /\ \E st \in {learn_from_llm_improvement(ManagerState, Observations[o].source_text,
                      Observations[o].original, Observations[o].improved,
                      confidence, now)} :
          /\ learned_rules' = st.learned
          /\ learning_candidates' = st.cands
          /\ learned_file' = st.file
          /\ last_op' = [NoOp EXCEPT !.op = "learn", !.ret = 1, !.obs = o,
                                     !.confidence = confidence,
                                     !.created = st.created, !.evicted = st.evicted]
    /\ UNCHANGED <<base_rules, mod_specific_rules, now>>
    /\ UNCHANGED <<threadVars, runVars, protVars, transVars, engineVars, callVars>>

\* the end of EnhancedBG3Translator.translate_mod:
\* _evaluate_learning_candidates() and save_learned_rules()
EndOfRun ==
    /\ UNCHANGED <<learns, imports>>
    /\ \E st \in {save_learned_rules(evaluate_learning_candidates(ManagerState, now))} :
          /\ learned_rules' = st.learned
          /\ learning_candidates' = st.cands
          /\ learned_file' = st.file
          /\ last_op' = [NoOp EXCEPT !.op = "end_of_run",
                                     !.created = st.created, !.evicted = st.evicted]
    /\ UNCHANGED <<base_rules, mod_specific_rules, now>>
    /\ UNCHANGED <<threadVars, runVars, protVars, transVars, engineVars, callVars>>

\* DynamicRulesManager.apply_rules(text, stage, mod_name)
ApplyRules(text, stage, mod_name) ==
    /\ \E r \in {Manager_apply_rules(Store(base_rules, learned_rules, mod_specific_rules),
                                     text, stage, mod_name)} :
          /\ \A ref \in { ExtendedRefs(r.rs, stage, mod_name)[k] :
                            k \in 1..Len(ExtendedRefs(r.rs, stage, mod_name)) } :
                /\ RuleAt(r.rs, stage, mod_name, ref).usage_count <= MaxUsage
                /\ RuleAt(r.rs, stage, mod_name, ref).success_rate
                      >= PenalizeTimes(RateOne, MaxPenalties)
          /\ base_rules' = r.rs.base
          /\ learned_rules' = r.rs.learned
          /\ mod_specific_rules' = r.rs.mod
          /\ last_op' = [NoOp EXCEPT !.op = "apply_rules", !.text = text,
                                     !.stage = stage, !.mod_name = mod_name,
                                     !.out = r.text]
    /\ UNCHANGED <<learning_candidates, learned_file, now, learns, imports>>
    /\ UNCHANGED <<threadVars, runVars, protVars, transVars, engineVars, callVars>>

\* load_mod_specific_rules(mod_name, rules_path), once for each mod
LoadModRules(mod_name) ==
    /\ mod_name \notin DOMAIN mod_specific_rules
    /\ mod_specific_rules' =
          (mod_name :> ModRulesOf(mod_name, ModRuleFile)) @@ mod_specific_rules
    /\ last_op' = [NoOp EXCEPT !.op = "load_mod_specific_rules", !.ret = 1]
    /\ UNCHANGED <<base_rules, learned_rules, learning_candidates, learned_file, now,
                   learns, imports>>
    /\ UNCHANGED <<threadVars, runVars, protVars, transVars, engineVars, callVars>>

\* export_rules_for_review(output_path)
Export ==
    /\ last_op.op # "export_rules_for_review"
    /\ last_op' = [NoOp EXCEPT !.op = "export_rules_for_review", !.ret = 1]
    /\ UNCHANGED <<storeVars, learning_candidates, learned_file, now, learns, imports>>
    /\ UNCHANGED <<threadVars, runVars, protVars, transVars, engineVars, callVars>>

\* import_reviewed_rules(reviewed_path) on the export of the current rules
\* with the reviewer's verdicts, followed by the entries extras added by hand
Import(verdicts, extras) ==
    /\ imports < MaxImports
    /\ imports' = imports + 1
    /\ UNCHANGED learns
    /\ \E r \in {import_reviewed_rules(ManagerState,
                    Mark(export_rules_for_review(learned_rules), verdicts)
                      \o extras)} :
          /\ learned_rules' = r.st.learned
          /\ learned_file' = r.st.file
          /\ last_op' = [NoOp EXCEPT !.op = "import_reviewed_rules", !.ret = r.ret,
                                     !.verdicts = verdicts, !.extras = extras,
                                     !.evicted = r.st.evicted]
    /\ UNCHANGED <<base_rules, mod_specific_rules, learning_candidates, now>>
    /\ UNCHANGED <<threadVars, runVars, protVars, transVars, engineVars, callVars>>

\* a second passes on the clock
Tick ==
    /\ now < MaxClock
    /\ now' = now + 1
    /\ UNCHANGED <<storeVars, learning_candidates, learned_file, last_op, learns, imports>>
    /\ UNCHANGED <<threadVars, runVars, protVars, transVars, engineVars, callVars>>

\* learning during a run
LearnNext ==
    \/ \E in \in LearnInputs : Learn(in[1], in[2])
    \/ EndOfRun
    \/ Tick

SpecLearn == ManagerInit /\ [][LearnNext]_vars

\* observations, among them some whose improved translation improves nothing
ObserveNext ==
    \/ \E in \in ObserveInputs : Learn(in[1], in[2])
    \/ EndOfRun

SpecObserve == ManagerInit /\ [][ObserveNext]_vars

\* learning, use of the learned rules and the review round trip
ReviewNext ==
    \/ \E in \in ReviewInputs : Learn(in[1], in[2])
    \/ \E text \in ManagerTexts : ApplyRules(text, "post_translation", "None")
    \/ Export
    \/ \E extras \in ReviewExtras :
          \E verdicts \in [1..Len(export_rules_for_review(learned_rules)) -> Verdicts] :
              Import(verdicts, extras)

SpecReview == ManagerInit /\ [][ReviewNext]_vars

\* the rule partitions: base rules, reviewed rules and a mod's rules, with
\* the base and learned rules applied after translation
RulesNext ==
    \/ \E mod_name \in ModNames : LoadModRules(mod_name)
    \/ \E text \in RulesTexts : ApplyRules(text, "post_translation", "None")
    \/ \E extras \in RulesExtras :
          \E verdicts \in [1..Len(export_rules_for_review(learned_rules)) -> Verdicts] :
              Import(verdicts, extras)

SpecRules == ManagerInit /\ [][RulesNext]_vars

ApplyTexts == RulesTexts \cup { <<"X">> }

\* the application of the rules of every stage, without and with a mod
ApplyNext ==
    \/ \E mod_name \in ModNames : LoadModRules(mod_name)
    \/ \E text \in ApplyTexts, stage \in Stages, mod_name \in ModNames \cup {"None"} :
          ApplyRules(text, stage, mod_name)

SpecApply == ManagerInit /\ [][ApplyNext]_vars

------------------------------------------------------------------------------
(* Properties of the pipeline *)

\* C1: whenever the machine-translation collaborator raises during
\* process_text, the call returns exactly its input string and leaves the
\* cache as it was.
C1_FailureReturnsOriginal ==
    [][(calls' = calls + 1 /\ last_call'.mt = "raise")
          => (last_call'.out = last_call'.text /\ cache' = cache)]_vars

\* a failed call on a text that the cleaning steps change
C1_Witness ==
    /\ last_call.path = "failed"
    /\ last_call.mt = "raise"
    /\ normalize_whitespace(clean_encoding(last_call.text)) # last_call.text

SameInputTwice ==
    /\ prev_call.path # "none"
    /\ last_call.path # "none"
    /\ last_call.text = prev_call.text

SecondIsHit ==
    /\ last_call.out = prev_call.out
    /\ last_call.dhits = 1
    /\ last_call.dmisses = 0

\* C3 as stated: two consecutive process_text calls with the same input and
\* the same refinement flag return the same output, and the second call
\* increments the hit counter and not the miss counter.
C3_SecondCallIsHit == SameInputTwice => SecondIsHit

\* C3 amended: the same, when the first call returned a non-empty result from
\* the cache or from a completed pipeline run.
C3_SecondCallIsHitAfterResult ==
    (SameInputTwice /\ prev_call.path \in {"hit", "stored"} /\ prev_call.out # << >>)
        => SecondIsHit

C3_Witness ==
    /\ SameInputTwice
    /\ prev_call.path = "stored"
    /\ prev_call.out # << >>
    /\ last_call.path = "hit"

IdentityRun ==
    /\ last_call.path = "stored"
    /\ last_call.mt = "identity"
    /\ last_call.llm \in {"none", "fail"}

\* C4: apply_rules applies each rule of a stage to the output of the previous
\* rule and the stages chain: with the rules 'Bolt Loaded' -> 'X' and
\* 'X' -> 'Carreau charge', in the pre and post stages or both in one stage,
\* and an identity translation, process_text('Bolt Loaded') returns
\* 'Carreau charge'.
C4_RuleChaining ==
    (IdentityRun /\ last_call.text = BoltLoaded /\ rules_file \in {"chain", "stage"})
        => last_call.out = CarreauCharge

C4_Witness ==
    /\ IdentityRun
    /\ last_call.text = BoltLoaded
    /\ rules_file = "stage"
    /\ last_call.out = CarreauCharge

\* C5: the glossary step substitutes the terms by descending length, whole
\* word and case-insensitive: with 'Armor' and 'Heavy Armor' in the glossary,
\* 'Heavy Armor wearers' becomes 'armure lourde wearers'.
C5_GlossaryLongestFirst ==
    (IdentityRun /\ glossary_manager = "GlossaryManager"
       /\ last_call.text = HeavyArmorWearers)
        => /\ last_call.out = GlossaryLoop(get_glossary(MAIN_GLOSSARY), 1, HeavyArmorWearers)
           /\ last_call.out = <<"armure", " ", "lourde", " ", "wearers">>

\* process_text applied to a previous output, with an empty cache and
\* collaborators that add no text
SecondPass(text) ==
    process_text([TranslatorState EXCEPT !.cache = << >>], text, FALSE,
                 "identity", "fail").out

IsNormalized(t) ==
    /\ t # << >> => (t[1] # " " /\ t[Len(t)] # " ")
    /\ \A i \in 1..(Len(t) - 1) : ~(t[i] = " " /\ t[i + 1] = " ")
    /\ \A n \in 1..Len(ENCODING_FIXES) : ~Contains(t, ENCODING_FIXES[n][1])

\* the patterns of all rules the rule engine holds
AllPatterns ==
    IF rule_engine = "RuleEngine"
    THEN UNION { { re_rules[s][i][1] : i \in 1..Len(re_rules[s]) } : s \in Stages }
    ELSE UNION { { base_rules[s][i].pattern : i \in 1..Len(base_rules[s]) }
                   \cup { learned_rules[s][i].pattern : i \in 1..Len(learned_rules[s]) }
                 : s \in Stages }

NoRuleMatches(t) ==
    \A pat \in AllPatterns : \A p \in 1..Len(t) : ~MatchAt(t, p, pat)

StablePoint(t) ==
    /\ IsNormalized(t)
    /\ \A i \in 1..Len(t) : ~IsDigit(t[i])
    /\ NoRuleMatches(t)

------------------------------------------------------------------------------
(* Properties of protect_expressions and restore_expressions *)

\* C2: for every text that holds no placeholder literal, whatever its number
\* of dice expressions, restore_expressions(protect_expressions(text)) is the
\* text.
C2_RestoreExact ==
    (px_pc = "restored" /\ ~HasPlaceholderLiteral(px_text)) => px_restored = px_text

------------------------------------------------------------------------------
(* Properties of the rules manager *)

\* the step is an evaluation of the pending candidates: the end of a run, or
\* an observation that adds a candidate at or above the confidence threshold
IsEvaluation(cands, op) ==
    \/ op.op = "end_of_run"
    \/ /\ op.op = "learn"
       /\ op.confidence >= confidence_threshold
       /\ FindCandidate(cands, Observations[op.obs].source_text,
                        Observations[op.obs].original) = 0

\* the candidates that evaluation groups
Evaluated(cands, op) ==
    IF op.op = "end_of_run" THEN cands
    ELSE Append(cands, NewCandidate(Observations[op.obs].source_text,
                                    Observations[op.obs].original,
                                    Observations[op.obs].improved, op.confidence))

Unpatterned(cands) == SelectSeq(cands, LAMBDA c : c.detected_pattern = NonePattern)

\* C6: when the pending candidates are evaluated, each group of candidates
\* sharing a detected pattern produces exactly one new learned rule if its
\* total frequency is at least min_frequency_for_pattern and its
\* frequency-weighted average confidence is at least confidence_threshold,
\* and otherwise none; candidates without a pattern produce no rule and stay
\* pending.
C6_PromotionCriteria ==
    [][((learns' = learns + 1 \/ (learns' = learns /\ now' = now))
           /\ IsEvaluation(learning_candidates, last_op'))
        => \A ev \in {Evaluated(learning_candidates, last_op')} :
           \A created \in {last_op'.created} :
           LET freq(g) == SumSeq([i \in 1..Len(g) |-> g[i].frequency])
               weighted(g) == SumSeq([i \in 1..Len(g) |->
                                         g[i].confidence * g[i].frequency])
               rules_for(p) == Cardinality({ k \in 1..Len(created) : created[k] = p })
           IN  /\ \A p \in { ev[i].detected_pattern : i \in 1..Len(ev) } \ {NonePattern} :
                     \A g \in {SelectSeq(ev, LAMBDA c : c.detected_pattern = p)} :
                         rules_for(p) =
                            IF /\ freq(g) >= min_frequency_for_pattern
                               /\ weighted(g) >= confidence_threshold * freq(g)
                            THEN 1 ELSE 0
               /\ rules_for(NonePattern) = 0
               /\ \A k \in 1..Len(created) :
                     \E i \in 1..Len(ev) : ev[i].detected_pattern = created[k]
               /\ Unpatterned(learning_candidates') = Unpatterned(ev)]_vars

\* an evaluation that created one rule from a group of three candidates while
\* an unpatterned candidate was pending
C6_Witness ==
    /\ last_op.op \in {"learn", "end_of_run"}
    /\ Len(last_op.created) = 1
    /\ Unpatterned(learning_candidates) # << >>
    /\ learns = 4

\* C7: every stage holds at most max_learned_rules learned rules, and when
\* the cleanup of save_learned_rules dropped rules from a stage, the stage
\* holds exactly max_learned_rules rules and none of them scores lower than a
\* dropped one, the score being confidence x (1 + usage_count) x success_rate.
C7_EvictionKeepsBest ==
    /\ \A s \in Stages : Len(learned_rules[s]) <= max_learned_rules
    /\ \A k \in 1..Len(last_op.evicted) :
          LET e == last_op.evicted[k]
              kept == learned_rules[e.stage]
          IN  /\ Len(kept) = max_learned_rules
              /\ \A i \in 1..Len(kept) :
                    kept[i].confidence * (1 + kept[i].usage_count) * kept[i].success_rate
                      >= e.confidence * (1 + e.usage_count) * e.success_rate

\* a cleanup that dropped a rule of higher confidence than one it retained,
\* which had been used
C7_Witness ==
    /\ last_op.op = "import_reviewed_rules"
    /\ \E k \in 1..Len(last_op.evicted) :
          \E i \in 1..Len(learned_rules["post_translation"]) :
              /\ learned_rules["post_translation"][i].confidence
                    < last_op.evicted[k].confidence
              /\ learned_rules["post_translation"][i].usage_count > 0

\* the exported entries of a stage start after those of the stages before it
ExportOffset(learned, s) ==
    CASE s = StageOrder[1] -> 0
      [] s = StageOrder[2] -> Len(learned[StageOrder[1]])
      [] s = StageOrder[3] -> Len(learned[StageOrder[1]]) + Len(learned[StageOrder[2]])

\* the reviewer approved half of the exported entries, rejected the other
\* half and added nothing
HalfApproved(op) ==
    /\ op.op = "import_reviewed_rules"
    /\ op.extras = << >>
    /\ op.verdicts # << >>
    /\ \A i \in 1..Len(op.verdicts) : op.verdicts[i] # "None"
    /\ Cardinality({ i \in 1..Len(op.verdicts) : op.verdicts[i] = "True" })
         = Cardinality({ i \in 1..Len(op.verdicts) : op.verdicts[i] = "False" })

\* C8: importing the export of N learned rules in which half of the entries
\* are approved with a modified replacement and the other half rejected
\* leaves exactly the approved rules, in place, with the new replacement and
\* their usage_count and success_rate, and returns N/2.
C8_ReviewRoundTrip ==
    [][(imports' = imports + 1 /\ HalfApproved(last_op'))
        => LET v == last_op'.verdicts
               expected(s) ==
                   LET rules == learned_rules[s]
                       off == ExportOffset(learned_rules, s)
                       idxs == SelectSeq([i \in 1..Len(rules) |-> i],
                                         LAMBDA i : v[off + i] = "True")
                   IN  [k \in 1..Len(idxs) |->
                           [rules[idxs[k]] EXCEPT !.replacement = RevisedReplacement]]
           IN  /\ last_op'.ret = Len(v) \div 2
               /\ \A s \in Stages : learned_rules'[s] = expected(s)]_vars

\* the position of element k of a list in its stable sort by descending
\* confidence
SortedPosition(all, k) ==
    1 + Cardinality({ j \in 1..Len(all) : all[j].confidence > all[k].confidence })
      + Cardinality({ j \in 1..(k - 1) : all[j].confidence = all[k].confidence })

\* C10: get_applicable_rules(stage, mod) returns the base rules, the learned
\* rules and, only when mod is given and loaded, the rules of that mod for the
\* stage, by descending confidence, rules of equal confidence in the order
\* base, learned, mod-specific and in insertion order within each.
C10_ApplicableRulesOrder ==
    \A stage \in Stages, mod_name \in ModNames \cup {"None"} :
        LET all == base_rules[stage] \o learned_rules[stage]
                     \o (IF mod_name # "None" /\ mod_name \in DOMAIN mod_specific_rules
                         THEN mod_specific_rules[mod_name][stage] ELSE << >>)
            out == get_applicable_rules(
                       Store(base_rules, learned_rules, mod_specific_rules),
                       stage, mod_name)
        IN  /\ Len(out) = Len(all)
            /\ \A k \in 1..Len(all) : out[SortedPosition(all, k)] = all[k]

\* a base rule, a learned rule and a mod rule of equal confidence after a
\* learned rule of lower confidence
C10_Witness ==
    /\ "BetterCrossbows" \in DOMAIN mod_specific_rules
    /\ Len(learned_rules["post_translation"]) = 2
    /\ learned_rules["post_translation"][1].confidence
         < learned_rules["post_translation"][2].confidence
    /\ learned_rules["post_translation"][2].confidence
         = base_rules["post_translation"][1].confidence
    /\ mod_specific_rules["BetterCrossbows"]["post_translation"][1].confidence
         = base_rules["post_translation"][1].confidence

------------------------------------------------------------------------------
(* Properties of the refinement step *)

\* C11: when refinement is enabled and a credential is present, the
\* translation after the refinement step is the collaborator's output if that
\* output is not empty, and the translation before the step in every other
\* case (failure or empty output).
C11_RefinementFallback ==
    (last_call.path = "stored" /\ last_call.llm # "none")
        => last_call.translated =
              IF last_call.llm = "improved"
              THEN last_call.post \o <<" ", "!">>
              ELSE last_call.post

------------------------------------------------------------------------------
(* Properties of the observations of the learner *)

\* the improved translation of the observation is the original one or is empty
IsNoOpObservation(o) ==
    \/ Observations[o].improved = Observations[o].original
    \/ Observations[o].improved = << >>

\* C12: learn_from_llm_improvement rejects an observation whose improved
\* translation equals the original one or is empty: it returns false, creates
\* no candidate and changes no candidate.
C12_NoOpObservationRejected ==
    [][(learns' = learns + 1 /\ IsNoOpObservation(last_op'.obs))
        => (last_op'.ret = 0 /\ learning_candidates' = learning_candidates)]_vars

\* no two pending candidates have the same source text and original
\* translation
NoDuplicateCandidates ==
    \A i, j \in 1..Len(learning_candidates) :
        (/\ learning_candidates[i].source_text = learning_candidates[j].source_text
         /\ learning_candidates[i].original_translation
               = learning_candidates[j].original_translation)
            => i = j

\* C13: an observation whose source text and original translation are those
\* of a pending candidate adds no candidate, adds 1 to that candidate's
\* frequency and sets its confidence to the greater of the old and the
\* observed one; no two pending candidates ever share a source text and
\* original translation.
C13_DuplicateObservation ==
    /\ []NoDuplicateCandidates
    /\ [][learns' = learns + 1
           => \A i \in 1..Len(learning_candidates) :
                 (/\ learning_candidates[i].source_text
                       = Observations[last_op'.obs].source_text
                  /\ learning_candidates[i].original_translation
                       = Observations[last_op'.obs].original)
                    => /\ Len(learning_candidates') = Len(learning_candidates)
                       /\ \A j \in 1..Len(learning_candidates) :
                             learning_candidates'[j] =
                                IF j # i THEN learning_candidates[j]
                                ELSE [learning_candidates[i] EXCEPT
                                        !.frequency = @ + 1,
                                        !.confidence =
                                            IF last_op'.confidence > @
                                            THEN last_op'.confidence ELSE @]]_vars

\* a repeated observation of lower confidence than the pending candidate's
C13_Witness ==
    /\ last_op.op = "learn"
    /\ last_op.obs = "o3"
    /\ last_op.confidence = Eighths(6)
    /\ \E i \in 1..Len(learning_candidates) :
          /\ learning_candidates[i].source_text = Observations["o3"].source_text
          /\ learning_candidates[i].frequency = 2
          /\ learning_candidates[i].confidence = Eighths(7)

------------------------------------------------------------------------------
(* Properties of apply_rules of the rules manager *)

\* the text after the rules from the n-th on, a rule whose pattern raises
\* leaving the text as it is
RECURSIVE TextAfterRules(_, _, _)
TextAfterRules(rules, n, text) ==
    IF n > Len(rules) THEN text
    ELSE TextAfterRules(rules, n + 1,
             IF rules[n].pattern.kind = "bad" THEN text
             ELSE re_sub(rules[n].pattern, rules[n].replacement, text))

\* a list of rules after an application in which the rules of the list were
\* tried: the rules are those of before, up to their usage counts, with the
\* success rate of those whose pattern raises multiplied by 0.9
PenalizedOnly(before, after) ==
    /\ Len(after) = Len(before)
    /\ \A i \in 1..Len(before) :
          /\ [after[i] EXCEPT !.usage_count = 0, !.success_rate = 0]
               = [before[i] EXCEPT !.usage_count = 0, !.success_rate = 0]
          /\ after[i].success_rate =
                IF before[i].pattern.kind = "bad"
                THEN (before[i].success_rate * 9) \div 10
                ELSE before[i].success_rate

\* C14: in apply_rules a rule whose pattern raises a regex error leaves the
\* text as it was, the remaining rules of the stage are applied, the rule's
\* success_rate is multiplied by 0.9 and the rule stays in its partition.
C14_RegexErrorSkipsRule ==
    [][(last_op'.op = "apply_rules" /\ last_op'.text # << >>)
        => LET stage == last_op'.stage
               mod_name == last_op'.mod_name
               tried == get_applicable_rules(
                            Store(base_rules, learned_rules, mod_specific_rules),
                            stage, mod_name)
           IN  /\ last_op'.out = TextAfterRules(tried, 1, last_op'.text)
               /\ PenalizedOnly(base_rules[stage], base_rules'[stage])
               /\ PenalizedOnly(learned_rules[stage], learned_rules'[stage])
               /\ DOMAIN mod_specific_rules' = DOMAIN mod_specific_rules
               /\ mod_name \in DOMAIN mod_specific_rules =>
                     PenalizedOnly(mod_specific_rules[mod_name][stage],
                                   mod_specific_rules'[mod_name][stage])]_vars

\* an application in which the rule after the failing one changed the text,
\* the failing rule being penalised for the second time
C14_Witness ==
    /\ last_op.op = "apply_rules"
    /\ last_op.mod_name = "BetterCrossbows"
    /\ last_op.out = <<"la", " ", "tir">>
    /\ "BetterCrossbows" \in DOMAIN mod_specific_rules
    /\ mod_specific_rules["BetterCrossbows"]["post_translation"][1].success_rate
         = (((RateOne * 9) \div 10) * 9) \div 10

------------------------------------------------------------------------------
(* Loading rule and candidate files.  An entry of a file is a JSON object:  *)
(* the keys it has and what it holds.  Reading a key an entry does not have *)
(* raises KeyError.                                                         *)

RuleKeys == {"name", "pattern", "replacement", "description"}
EngineKeys == {"pattern", "replacement"}
\* Rule.from_dict
LearnedKeys == RuleKeys \cup {"stage"}
CandidateKeys ==
    {"source_text", "original_translation", "improved_translation",
     "improvement_source", "confidence"}

Raises(entry, required) == ~(required \subseteq entry.keys)

\* the position of the first entry of the list that raises, Len(list) + 1 if
\* there is none
FirstError(list, required) ==
    IF \E i \in 1..Len(list) : Raises(list[i], required)
    THEN CHOOSE i \in 1..Len(list) :
             /\ Raises(list[i], required)
             /\ \A j \in 1..(i - 1) : ~Raises(list[j], required)
    ELSE Len(list) + 1

\* the entries a loop over the list reads before an entry raises
ReadUntilError(list, required) == SubSeq(list, 1, FirstError(list, required) - 1)

StagePos(s) == CHOOSE n \in 1..Len(StageOrder) : StageOrder[n] = s

\* an entry raised in one of the first n stage lists of the file
ErrorIn(lists, n, required) ==
    \E k \in 1..n : FirstError(lists[StageOrder[k]], required) <= Len(lists[StageOrder[k]])

\* _load_base_rules: one try around the loops over the stages and their
\* entries; the except clause logs the error
load_base_rules(file) ==
    [s \in Stages |->
        IF ErrorIn(file, StagePos(s) - 1, RuleKeys) THEN << >>
        ELSE LET read == ReadUntilError(file[s], RuleKeys)
             IN  [i \in 1..Len(read) |->
                     NewRule(<<s, i>>, read[i].pattern, read[i].replacement, s, One,
                             "None")]]

\* _load_learned_rules: one try around the loop over the rules and the loop
\* over the candidates
load_learned_rules(file) ==
    IF ~file.exists THEN [learned |-> NoRules, cands |-> << >>]
    ELSE [learned |->
             [s \in Stages |->
                 IF ErrorIn(file.learned_rules, StagePos(s) - 1, LearnedKeys) THEN << >>
                 ELSE LET read == ReadUntilError(file.learned_rules[s], LearnedKeys)
                      IN  [i \in 1..Len(read) |-> read[i].rule]],
          cands |->
             IF ErrorIn(file.learned_rules, Len(StageOrder), LearnedKeys) THEN << >>
             ELSE LET read == ReadUntilError(file.learning_candidates, CandidateKeys)
                  IN  [i \in 1..Len(read) |-> read[i].candidate]]

\* RuleEngine.load_rules: a stage's list is replaced when all its entries were
\* read; an entry that raises ends the loading, which returns False
load_rules(rules, file) ==
    [rules |->
        [s \in Stages |->
            IF ErrorIn(file, StagePos(s), EngineKeys) THEN rules[s]
            ELSE [i \in 1..Len(file[s]) |-> <<file[s][i].pattern, file[s][i].replacement>>]],
     ret |-> IF ErrorIn(file, Len(StageOrder), EngineKeys) THEN 0 ELSE 1]

Entry(keys, pattern, replacement) ==
    [keys |-> keys, pattern |-> pattern, replacement |-> replacement]

EntryA == Entry(RuleKeys, Pat("word", <<"greve">>), <<"tir">>)
EntryB == Entry(RuleKeys, Pat("lit", <<"X">>), <<"Y">>)
\* an entry without "pattern"
EntryNoPattern == Entry(RuleKeys \ {"pattern"}, Pat("lit", << >>), <<"Z">>)

\* rule files: well-formed ones, and files with one malformed entry at the
\* start, at the end, in the middle and in an earlier stage
LoadFiles ==
    [ empty |-> NoRules,
      good |-> [NoRules EXCEPT !["post_translation"] = <<EntryA, EntryB>>],
      swapped |-> [NoRules EXCEPT !["post_translation"] = <<EntryB, EntryA>>],
      first |-> [NoRules EXCEPT !["post_translation"] = <<EntryNoPattern, EntryA>>],
      last |-> [NoRules EXCEPT !["post_translation"] = <<EntryA, EntryNoPattern>>],
      middle |-> [NoRules EXCEPT
                    !["post_translation"] = <<EntryA, EntryNoPattern, EntryB>>],
      earlier |-> [NoRules EXCEPT !["pre_translation"] = <<EntryNoPattern>>,
                                  !["final_cleanup"] = <<EntryB>>] ]

\* an entry of a stage's list of learned rules, as save_learned_rules writes
\* it: its "stage" is the stage of the list
LearnedEntry(keys, n, word, stage) ==
    [keys |-> keys,
     rule |-> NewRule(LearnedName(n, 0), Pat("word", <<word>>), <<"frappe">>,
                      stage, Eighths(7), "None")]

CandidateEntry(keys, o) ==
    [keys |-> keys,
     candidate |-> NewCandidate(Observations[o].source_text, Observations[o].original,
                                Observations[o].improved, Eighths(7))]

\* files at learned_rules_path: none, one with a candidate without
\* "confidence" between two others, one with a rule without "stage" between
\* two others
LearnedInputs ==
    [ absent |-> NoFile,
      candidate |->
         FileOf([NoRules EXCEPT
                   !["post_translation"] = <<LearnedEntry(LearnedKeys, 0, "greve", "post_translation")>>],
                <<CandidateEntry(CandidateKeys, "o1"),
                  CandidateEntry(CandidateKeys \ {"confidence"}, "o2"),
                  CandidateEntry(CandidateKeys, "o3")>>),
      rule |->
         FileOf([NoRules EXCEPT
                   !["post_translation"] = <<LearnedEntry(LearnedKeys, 0, "greve", "post_translation")>>,
                   !["final_cleanup"] = <<LearnedEntry(RuleKeys, 1, "salve", "final_cleanup"),
                                   LearnedEntry(LearnedKeys, 2, "trait", "final_cleanup")>>],
                <<CandidateEntry(CandidateKeys, "o1")>>) ]

LoadInit ==
    /\ ProtParked
    /\ RunParked
    /\ ThreadParked
    /\ PipeParked
    /\ StoreParked
    /\ LearnParked

\* DynamicRulesManager(base_rules_path, learned_rules_path) on the rule file f
\* and the learned file l
Construct(f, l) ==
    /\ base_rules' = load_base_rules(LoadFiles[f])
    /\ \E r \in {load_learned_rules(LearnedInputs[l])} :
          /\ learned_rules' = r.learned
          /\ learning_candidates' = r.cands
    /\ mod_specific_rules' = << >>
    /\ learned_file' = LearnedInputs[l]
    /\ last_op' = [NoOp EXCEPT !.op = "__init__", !.file = f]
    /\ UNCHANGED <<now, learns, imports>>
    /\ UNCHANGED <<threadVars, runVars, protVars, transVars, engineVars, callVars>>

\* RuleEngine.load_rules(rules_path) on the rule file f
LoadRules(f) ==
    /\ \E r \in {load_rules(re_rules, LoadFiles[f])} :
          /\ re_rules' = r.rules
          /\ last_op' = [NoOp EXCEPT !.op = "load_rules", !.file = f, !.ret = r.ret]
    /\ UNCHANGED <<storeVars, learning_candidates, learned_file, now, learns, imports>>
    /\ UNCHANGED <<threadVars, runVars, protVars, transVars, callVars>>

LoadNext ==
    \/ \E f \in DOMAIN LoadFiles, l \in DOMAIN LearnedInputs : Construct(f, l)
    \/ \E f \in DOMAIN LoadFiles : LoadRules(f)

SpecLoad == LoadInit /\ [][LoadNext]_vars

\* the well-formed entries of a list
WellFormed(list, required) == SelectSeq(list, LAMBDA e : ~Raises(e, required))

PairsOf(list) == [i \in 1..Len(list) |-> <<list[i].pattern, list[i].replacement>>]

\* C15: loading a rule or candidate file with a malformed entry skips only
\* that entry: every well-formed entry of the file, before or after it, is
\* loaded.
C15_MalformedEntrySkipped ==
    /\ last_op.op = "__init__" =>
          /\ \A s \in Stages :
                /\ PairsOf(base_rules[s])
                     = PairsOf(WellFormed(LoadFiles[last_op.file][s], RuleKeys))
                /\ LET kept == WellFormed(learned_file.learned_rules[s], LearnedKeys)
                   IN  learned_rules[s] = [i \in 1..Len(kept) |-> kept[i].rule]
          /\ LET kept == WellFormed(learned_file.learning_candidates, CandidateKeys)
             IN  learning_candidates = [i \in 1..Len(kept) |-> kept[i].candidate]
    /\ last_op.op = "load_rules" =>
          \A s \in Stages :
             re_rules[s] = PairsOf(WellFormed(LoadFiles[last_op.file][s], EngineKeys))

------------------------------------------------------------------------------
(* A run of EnhancedBG3Translator.translate_mod.  The archive and package    *)
(* steps and the converter are collaborators; the run is the detection of    *)
(* the mod, the translation of the XML files by the workers and the end of   *)
(* _translate_localization_files.  A worker's process_file is one step: the  *)
(* files are independent and the order of the steps is the order in which    *)
(* the results are appended.                                                 *)

MaxFiles == 2

\* the stems of the archives: one of a known mod and one of no known mod
ModZips == { <<"BetterCrossbows", "_", "v2">>, <<"SomeMod">> }

\* _detect_mod_type: the first known mod whose key is in the stem, both in
\* lower case
detect_mod_type(stem) ==
    IF \E key \in ModNames : Contains(LowerSeq(stem), LowerSeq(<<key>>))
    THEN CHOOSE key \in ModNames : Contains(LowerSeq(stem), LowerSeq(<<key>>))
    ELSE "None"

\* an XML file: whether ET.fromstring parses it, and the texts of its content
\* elements
XmlFile(parses, contents) == [parses |-> parses, contents |-> contents]

XmlFileKinds ==
    { XmlFile(TRUE, << <<"la", " ", "greve">>, <<"X">> >>),
      XmlFile(TRUE, << <<" ">> >>),
      XmlFile(FALSE, << >>) }

RECURSIVE Batches(_)
Batches(n) ==
    IF n = 0 THEN { << >> }
    ELSE LET prev == Batches(n - 1)
         IN  prev \cup { Append(b, f) : b \in prev, f \in XmlFileKinds }

\* what the loop of process_file has done so far: the translator's state and
\* the calls of process_text, to which the call on text with the result r is
\* added
AfterElement(acc, text, r) ==
    [st |-> [acc.st EXCEPT !.cache = r.cache, !.hits = r.hits, !.misses = r.misses,
                           !.rs = r.rs],
     calls |-> Append(acc.calls,
                      [text |-> text, out |-> r.out, path |-> r.path,
                       refined |-> r.refined, received |-> r.received,
                       post |-> r.post])]

\* the loop of process_file over the content elements from the n-th on:
\* processor.process_text(elem.text), without a context, for each element
\* with a text that is not blank
RECURSIVE ProcessElements(_, _, _, _)
ProcessElements(acc, contents, n, mt) ==
    IF n > Len(contents) THEN acc
    ELSE IF IsBlank(contents[n]) THEN ProcessElements(acc, contents, n + 1, mt)
    ELSE ProcessElements(
             AfterElement(acc, contents[n],
                          process_text(acc.st, contents[n], FALSE, mt, "fail")),
             contents, n + 1, mt)

\* the result of process_file after the loop: translated_count > 0 and the
\* file was written
FileResult(acc, writable) ==
    [st |-> acc.st, calls |-> acc.calls, success |-> Len(acc.calls) > 0 /\ writable]

\* XMLFileHandler.process_file: every exception, of the parser or of the
\* writing of the file, becomes a failed result
process_file(st, file, mt, writable) ==
    IF ~file.parses THEN [st |-> st, success |-> FALSE, calls |-> << >>]
    ELSE FileResult(ProcessElements([st |-> st, calls |-> << >>], file.contents, 1, mt),
                    writable)

success_count_bad(rs) == Len(rs)

\* sum(1 for r in results if r.success)
success_count(rs) == Cardinality({ k \in 1..Len(rs) : rs[k].success })

\* the result of _translate_localization_files
BatchResult(files, rs) ==
    IF files = << >> THEN NoBatch
    ELSE [success |-> success_count(rs) > 0, translated_files |-> success_count(rs),
          total_files |-> Len(files)]

\* the state after the construction of the translator
RunInit ==
    /\ ProtParked
    /\ ThreadParked
    /\ use_llm_optimization \in BOOLEAN
    /\ parallel_translation \in BOOLEAN
    /\ rule_engine = "DynamicRulesManager"
    /\ glossary_manager = "None"
    /\ cache = << >>
    /\ hits = 0
    /\ misses = 0
    /\ re_rules = NoRules
    /\ calls = 0
    /\ last_call = NoCall
    /\ prev_call = NoCall
    /\ rules_file = "none"
    /\ base_rules = BaseRulesOf(ManagerBaseFile)
    /\ learned_rules = NoRules
    /\ mod_specific_rules = << >>
    /\ LearnParked
    /\ openrouter_key = FALSE
    /\ detected_mod = "None"
    /\ xml_files = << >>
    /\ results = << >>
    /\ batch = NoBatch
    /\ run_pc = "idle"

\* translate_mod(mod_zip, ..., openrouter_key) up to the search of the XML
\* files: _detect_mod_type, _load_mod_specific_rules
StartRun(stem, key, files) ==
    /\ run_pc = "idle"
    /\ run_pc' = "translating"
    /\ openrouter_key' = key
    /\ xml_files' = files
    /\ \E mod \in {detect_mod_type(stem)} :
          /\ detected_mod' = mod
          /\ mod_specific_rules' =
                IF mod = "None" THEN mod_specific_rules
                ELSE (mod :> ModRulesOf(mod, ModRuleFile)) @@ mod_specific_rules
    /\ UNCHANGED <<parallel_translation, results, batch>>
    /\ UNCHANGED <<base_rules, learned_rules>>
    /\ UNCHANGED <<protVars, transVars, engineVars, callVars, learnVars, threadVars>>

\* _translate_files_parallel when parallel_translation is set and there are
\* several files, _translate_files_sequential otherwise
InParallel == parallel_translation /\ Len(xml_files) > 1

Translated == { results[k].file : k \in 1..Len(results) }

\* _translate_single_file on the i-th file, with the outcome mt of the
\* translation collaborator and whether the file can be written; its result
\* is appended to the results
TranslateFile(i, mt, writable) ==
    /\ run_pc = "translating"
    /\ i \in (1..Len(xml_files)) \ Translated
    /\ ~InParallel => i = Len(results) + 1
    /\ \E r \in {process_file(TranslatorState, xml_files[i], mt, writable)} :
          /\ cache' = r.st.cache
          /\ hits' = r.st.hits
          /\ misses' = r.st.misses
          /\ base_rules' = r.st.rs.base
          /\ learned_rules' = r.st.rs.learned
          /\ mod_specific_rules' = r.st.rs.mod
          /\ results' = Append(results, [file |-> i, success |-> r.success,
                                         writable |-> writable, calls |-> r.calls])
    /\ UNCHANGED <<parallel_translation, openrouter_key, detected_mod, xml_files, batch,
                   run_pc>>
    /\ UNCHANGED <<use_llm_optimization, rule_engine, glossary_manager>>
    /\ UNCHANGED <<protVars, engineVars, callVars, learnVars, threadVars>>

\* the end of _translate_localization_files and of translate_mod:
\* _evaluate_learning_candidates() and save_learned_rules()
FinishRun ==
    /\ run_pc = "translating"
    /\ Translated = 1..Len(xml_files)
    /\ run_pc' = "done"
    /\ batch' = BatchResult(xml_files, results)
    /\ \E st \in {save_learned_rules(evaluate_learning_candidates(ManagerState, now))} :
          /\ learned_rules' = st.learned
          /\ learning_candidates' = st.cands
          /\ learned_file' = st.file
          /\ last_op' = [NoOp EXCEPT !.op = "end_of_run",
                                     !.created = st.created, !.evicted = st.evicted]
    /\ UNCHANGED <<parallel_translation, openrouter_key, detected_mod, xml_files, results>>
    /\ UNCHANGED <<base_rules, mod_specific_rules, now, learns, imports>>
    /\ UNCHANGED <<protVars, transVars, engineVars, callVars, threadVars>>

RunNext ==
    \/ \E stem \in ModZips, key \in BOOLEAN, files \in Batches(MaxFiles) :
          StartRun(stem, key, files)
    \/ \E i \in 1..MaxFiles, mt \in {"raise", "french"}, writable \in BOOLEAN :
          TranslateFile(i, mt, writable)
    \/ FinishRun

SpecRun == RunInit /\ [][RunNext]_vars

\* whether process_file succeeds on a file that can or cannot be written
FileSucceeds(file, writable) ==
    /\ file.parses
    /\ \E n \in 1..Len(file.contents) : ~IsBlank(file.contents[n])
    /\ writable

------------------------------------------------------------------------------
(* Properties of the cache lookup of process_text *)

\* C17: whenever the cache lookup of process_text is counted as a hit,
\* process_text returns the cached value without a further pipeline step:
\* the translation collaborator is not invoked and the cache is not written.
C17_CountedHitReturnsCached ==
    last_call.dhits = 1 =>
        /\ last_call.path = "hit"
        /\ last_call.mt = "none"
        /\ \E k \in DOMAIN cache : cache[k] = last_call.out

------------------------------------------------------------------------------
(* Properties of a run of translate_mod *)

\* the calls of process_text made for the files translated so far
RunCalls ==
    UNION { { results[k].calls[n] : n \in 1..Len(results[k].calls) } :
            k \in 1..Len(results) }

\* C18: after translate_mod has detected a known mod and loaded its rules,
\* the rule stages of the run use the effective list base + learned + that
\* mod's rules: the text after the post stage is the received translation
\* rewritten by every rule of that list, the mod's rules included.
C18_ModRulesInEffect ==
    (detected_mod # "None" /\ detected_mod \in DOMAIN mod_specific_rules) =>
        \A c \in RunCalls :
            c.path = "stored" =>
                c.post = TextAfterRules(
                             get_applicable_rules(
                                 Store(base_rules, learned_rules, mod_specific_rules),
                                 "post_translation", detected_mod),
                             1, c.received)

\* C19: in a run of translate_mod with use_llm_optimization and a non-empty
\* openrouter_key, the refinement collaborator is invoked, between the post
\* stage and the cleanup stage, for every content element whose machine
\* translation succeeded.
C19_RefinementInvokedInRun ==
    (use_llm_optimization /\ openrouter_key) =>
        \A c \in RunCalls : c.path = "stored" => c.refined

------------------------------------------------------------------------------
(* Properties of the glossary step *)

\* the text has a whole-word, case-insensitive occurrence of the term
HasTerm(text, term) == \E p \in 1..Len(text) : MatchAt(text, p, Pat("word", term))

\* C20: with the shipped GlossaryManager the glossary step replaces every
\* whole-word, case-insensitive occurrence of a glossary term before the text
\* is sent to the translation collaborator: the text sent has no occurrence
\* of a term.
C20_GlossaryTermsReplaced ==
    (glossary_manager = "GlossaryManager" /\ last_call.mt # "none") =>
        \A n \in 1..Len(MAIN_GLOSSARY) : ~HasTerm(last_call.sent, MAIN_GLOSSARY[n][1])

------------------------------------------------------------------------------
(* Properties of the placeholders of protect_expressions *)

\* the number of positions of the text at which s occurs
Occurrences(t, s) == Cardinality({ p \in 1..Len(t) : StartsAt(t, p, s) })

\* C21: protect_expressions tracks every occurrence individually: each
\* occurrence of a matched expression, repeated identical ones included, gets
\* its own placeholder, so every placeholder recorded in the protections
\* occurs exactly once in the masked text.
C21_PlaceholderOccursOnce ==
    px_pc \in {"protected", "restored"} =>
        \A n \in 1..Len(px_protections) :
            Occurrences(px_protected, px_protections[n][1]) = 1

------------------------------------------------------------------------------
(* Properties of promotion *)

\* the total frequency of the candidates of the group that suggest r
FrequencyOf(g, r) ==
    SumSeq([i \in 1..Len(g) |-> IF g[i].suggested_replacement = r
                                THEN g[i].frequency ELSE 0])

\* the suggested replacement of the greatest total frequency in the group,
\* the first seen in the pending list among equals
MostFrequentReplacement(g) ==
    LET best == { i \in 1..Len(g) :
                    /\ HasText(g[i].suggested_replacement)
                    /\ \A j \in 1..Len(g) :
                          HasText(g[j].suggested_replacement) =>
                             FrequencyOf(g, g[j].suggested_replacement)
                               <= FrequencyOf(g, g[i].suggested_replacement) }
    IN  g[MinOf(best)].suggested_replacement

\* the rules of the learned post stage after the step that were not there
\* before it
NewRules(before, after) ==
    SelectSeq(after["post_translation"],
              LAMBDA r : ~(\E i \in 1..Len(before["post_translation"]) :
                              before["post_translation"][i] = r))

\* C22: when a candidate group is promoted, the new rule's replacement is the
\* suggested replacement of the greatest total frequency, summed over the
\* group's candidates, and on a tie the one seen first in the pending list.
C22_MostFrequentReplacement ==
    [][((learns' = learns + 1 \/ (learns' = learns /\ now' = now))
           /\ IsEvaluation(learning_candidates, last_op'))
        => \A ev \in {Evaluated(learning_candidates, last_op')} :
           \A new \in {NewRules(learned_rules, learned_rules')} :
              \A k \in 1..Len(new) :
                 new[k].replacement =
                    MostFrequentReplacement(
                        SelectSeq(ev, LAMBDA c : c.detected_pattern = new[k].pattern))]_vars

\* C23: every rule created by promotion receives a name different from the
\* name of every rule already in the learned post stage, after any sequence
\* of promotions, evictions and rejections, also within one clock second.
C23_PromotedNameIsNew ==
    [][((learns' = learns + 1 \/ (learns' = learns /\ now' = now))
           /\ IsEvaluation(learning_candidates, last_op'))
        => \A new \in {NewRules(learned_rules, learned_rules')} :
              \A k \in 1..Len(new) :
                 \A i \in 1..Len(learned_rules["post_translation"]) :
                    learned_rules["post_translation"][i].name # new[k].name]_vars

\* an approved entry written by hand without "description"
NoDescriptionEntry ==
    [rule |-> NewRule(<<"manual", 5, 0>>, Pat("word", <<"lame">>), <<"epee">>,
                      "post_translation", One, "None"),
     approved |-> "True",
     keys |-> FromDictKeys \ {"description"}]

\* what the reviewer adds while the manager learns: four well-formed entries,
\* or one well-formed entry and a malformed one, in either order
PromoteExtras ==
    { ManualEntries, <<ManualEntries[3], NoDescriptionEntry>>,
      <<NoDescriptionEntry, ManualEntries[3]>> }

\* learning while a reviewer returns review files
PromoteNext ==
    \/ \E in \in ReviewInputs : Learn(in[1], in[2])
    \/ EndOfRun
    \/ \E extras \in PromoteExtras :
          \E verdicts \in [1..Len(export_rules_for_review(learned_rules)) -> Verdicts] :
              Import(verdicts, extras)

SpecPromote == ManagerInit /\ [][PromoteNext]_vars

\* how many times x occurs in list
CountOf(list, x) == Cardinality({ i \in 1..Len(list) : list[i] = x })

\* the patterns of the rules an operation created, as a set
CreatedPatterns(op) == { op.created[k] : k \in 1..Len(op.created) }

\* C24: after the promotion of a group completed, a new rule with stage
\* post_translation, the pattern of the group and a confidence equal to the
\* frequency-weighted average confidence of the group is present in the
\* learned rules, exactly the candidates of the group have been removed from
\* the pending list, every other pending candidate is unchanged, and the
\* learned store has been persisted.
C24_PromotionCompleted ==
    [][((learns' = learns + 1 \/ (learns' = learns /\ now' = now))
           /\ IsEvaluation(learning_candidates, last_op')
           /\ last_op'.created # << >>)
        => \A ev \in {Evaluated(learning_candidates, last_op')} :
           \A old \in {learned_rules["post_translation"]} :
           \A new \in {learned_rules'["post_translation"]} :
              /\ \A p \in CreatedPatterns(last_op') :
                    \E k \in 1..Len(new) :
                       /\ new[k].stage = "post_translation"
                       /\ new[k].pattern = p
                       /\ new[k].confidence =
                            avg_confidence(SelectSeq(ev, LAMBDA c : c.detected_pattern = p))
                       /\ CountOf(new, new[k]) > CountOf(old, new[k])
              /\ learning_candidates' =
                    SelectSeq(ev, LAMBDA c : c.detected_pattern \notin CreatedPatterns(last_op'))
              /\ learned_file' = FileOf(learned_rules', learning_candidates')]_vars

\* the entries of the review file of an import
ReviewFile(learned, op) == Mark(export_rules_for_review(learned), op.verdicts) \o op.extras

\* the entries the loop of the import applied
Applied(entries) == SubSeq(entries, 1, FirstKeyError(entries) - 1)

\* C25: import_reviewed_rules returns the number of approved entries it
\* applied, and whenever it applied at least one approval or rejection the
\* learned store has been persisted, for every review file, also one in
\* which a later entry is malformed.
C25_ImportCountsAndPersists ==
    [][(imports' = imports + 1 /\ last_op'.op = "import_reviewed_rules")
        => \A applied \in {Applied(ReviewFile(learned_rules, last_op'))} :
              /\ last_op'.ret = CountApproved(applied, "True")
              /\ (CountApproved(applied, "True") + CountApproved(applied, "False") > 0)
                    => learned_file' = FileOf(learned_rules', learning_candidates')]_vars

------------------------------------------------------------------------------
(* Worker threads of _translate_files_parallel on the shared cache          *)
(*                                                                          *)
(* Each worker runs process_text on the translator the executor's threads   *)
(* share.  TranslationCache holds no lock: the membership test of get, the  *)
(* read of a counter, its write and the later set are separate steps that   *)
(* the steps of the other workers can come between.                         *)

MaxLookups == 4

Workers == { "w1", "w2" }
CacheTexts == { HeavyArmorWearers, <<"a", " ", " ", "b">> }

IdleThread == [pc |-> "idle", text |-> << >>, field |-> "none", reg |-> 0]

CacheInit ==
    /\ ProtParked
    /\ RunParked
    /\ PipeParked
    /\ StoreParked
    /\ LearnParked
    /\ threads = [w \in Workers |-> IdleThread]
    /\ lookups = 0

KeyOf(text) == CacheKey(normalize_whitespace(clean_encoding(text)), use_llm_optimization)

\* process_text up to "if key in self._cache" of TranslationCache.get
CacheCall(w, text) ==
    /\ threads[w].pc = "idle"
    /\ lookups < MaxLookups
    /\ lookups' = lookups + 1
    /\ threads' = [threads EXCEPT ![w] =
          [pc |-> "load", text |-> text,
           field |-> IF KeyOf(text) \in DOMAIN cache THEN "hits" ELSE "misses",
           reg |-> 0]]
    /\ UNCHANGED <<protVars, transVars, engineVars, storeVars, callVars, learnVars, runVars>>

\* self._stats[field] += 1: the counter is read
CacheLoad(w) ==
    /\ threads[w].pc = "load"
    /\ threads' = [threads EXCEPT ![w].pc = "store",
                                  ![w].reg = IF threads[w].field = "hits" THEN hits
                                             ELSE misses]
    /\ UNCHANGED lookups
    /\ UNCHANGED <<protVars, transVars, engineVars, storeVars, callVars, learnVars, runVars>>

\* self._stats[field] += 1: the value read plus one is written; get returns,
\* and process_text returns a cached result that is not empty
CacheStore(w) ==
    /\ threads[w].pc = "store"
    /\ hits' = IF threads[w].field = "hits" THEN threads[w].reg + 1 ELSE hits
    /\ misses' = IF threads[w].field = "misses" THEN threads[w].reg + 1 ELSE misses
    /\ threads' = [threads EXCEPT ![w] =
          IF threads[w].field = "hits" /\ cache[KeyOf(threads[w].text)] # << >>
          THEN IdleThread ELSE [@ EXCEPT !.pc = "translate"]]
    /\ UNCHANGED <<use_llm_optimization, rule_engine, glossary_manager, cache, lookups>>
    /\ UNCHANGED <<protVars, engineVars, storeVars, callVars, learnVars, runVars>>

\* the rest of process_text after a lookup that returned nothing, up to
\* self.cache.set(cache_key, final_result)
CacheFill(w) ==
    /\ threads[w].pc = "translate"
    /\ \E r \in {process_text([TranslatorState EXCEPT !.cache = << >>],
                              threads[w].text, FALSE, "french", "fail")} :
          cache' = CacheSet(cache, KeyOf(threads[w].text), r.out)
    /\ threads' = [threads EXCEPT ![w] = IdleThread]
    /\ UNCHANGED <<use_llm_optimization, rule_engine, glossary_manager, hits, misses,
                   lookups>>
    /\ UNCHANGED <<protVars, engineVars, storeVars, callVars, learnVars, runVars>>

CacheNext ==
    \/ \E w \in Workers, text \in CacheTexts : CacheCall(w, text)
    \/ \E w \in Workers : CacheLoad(w)
    \/ \E w \in Workers : CacheStore(w)
    \/ \E w \in Workers : CacheFill(w)

SpecCache == CacheInit /\ [][CacheNext]_vars

\* no worker is inside TranslationCache.get
NoLookupInProgress == \A w \in Workers : threads[w].pc \notin {"load", "store"}

\* C26: with several worker threads running process_text against the shared
\* cache no counter update is lost: once every call of get has returned,
\* hits + misses equals the number of lookups made.
C26_NoLostCounterUpdate ==
    NoLookupInProgress => hits + misses = lookups

------------------------------------------------------------------------------
(* A worker that applies the rules while a review is imported               *)
(*                                                                          *)
(* apply_rules evaluates rule.pattern and then rule.replacement for its     *)
(* call of re.sub; import_reviewed_rules assigns existing_rule.pattern and  *)
(* then existing_rule.replacement of the same Rule object.  No lock is      *)
(* held on either side.                                                     *)

\* the learned rule the manager was constructed with, and what a review
\* makes of it: the reviewed entry narrows the pattern and changes the
\* replacement, or restores both
LearnedRule ==
    NewRule(LearnedName(0, 0), Pat("word", <<"greve">>), <<"frappe">>,
            "post_translation", Eighths(7), "None")

RuleContents ==
    { [pattern |-> Pat("word", <<"greve">>), replacement |-> <<"frappe">>],
      [pattern |-> Pat("word", <<"la", " ", "greve">>),
       replacement |-> <<"le", " ", "coup">>] }

SwapTexts == { <<"la", " ", "greve">>, <<"une", " ", "greve">> }

IdleWorker ==
    [pc |-> "idle", text |-> << >>, pattern |-> NonePattern, replacement |-> NoneText,
     out |-> << >>]
IdleReviewer == [pc |-> "idle", entry |-> [pattern |-> NonePattern, replacement |-> NoneText]]

SwapInit ==
    /\ ProtParked
    /\ RunParked
    /\ PipeParked
    /\ base_rules = NoRules
    /\ learned_rules = [NoRules EXCEPT !["post_translation"] = <<LearnedRule>>]
    /\ mod_specific_rules = << >>
    /\ learning_candidates = << >>
    /\ learned_file = FileOf(learned_rules, << >>)
    /\ now = 0
    /\ last_op = NoOp
    /\ learns = 0
    /\ imports = 0
    /\ threads = [worker |-> IdleWorker, reviewer |-> IdleReviewer]
    /\ lookups = 0

\* apply_rules(text, "post_translation") up to the start of its loop, the
\* list of get_applicable_rules holding the learned rule
ApplyStart(text) ==
    /\ threads.worker.pc = "idle"
    /\ learned_rules["post_translation"][1].usage_count <= MaxUsage
    /\ threads' = [threads EXCEPT !.worker = [IdleWorker EXCEPT !.pc = "pattern",
                                                                 !.text = text]]
    /\ UNCHANGED <<storeVars, learnVars, lookups>>
    /\ UNCHANGED <<protVars, transVars, engineVars, callVars, runVars>>

\* the first argument of re.sub is evaluated: rule.pattern
ReadPattern ==
    /\ threads.worker.pc = "pattern"
    /\ threads' = [threads EXCEPT
          !.worker.pc = "replacement",
          !.worker.pattern = learned_rules["post_translation"][1].pattern]
    /\ UNCHANGED <<storeVars, learnVars, lookups>>
    /\ UNCHANGED <<protVars, transVars, engineVars, callVars, runVars>>

\* the second argument is evaluated, rule.replacement, re.sub is called and
\* the usage count of the rule follows
Substitute ==
    /\ threads.worker.pc = "replacement"
    /\ \E rep \in {learned_rules["post_translation"][1].replacement} :
       \E new \in {re_sub(threads.worker.pattern, rep, threads.worker.text)} :
          /\ threads' = [threads EXCEPT !.worker.pc = "idle",
                                        !.worker.replacement = rep,
                                        !.worker.out = new]
          /\ learned_rules' =
                IF new # threads.worker.text
                THEN [learned_rules EXCEPT !["post_translation"][1].usage_count = @ + 1]
                ELSE learned_rules
    /\ UNCHANGED <<base_rules, mod_specific_rules, learnVars, lookups>>
    /\ UNCHANGED <<protVars, transVars, engineVars, callVars, runVars>>

\* import_reviewed_rules on a file with one approved entry for the learned
\* rule, up to existing_rule.pattern = rule.pattern
WritePattern(entry) ==
    /\ threads.reviewer.pc = "idle"
    /\ imports < MaxImports
    /\ threads' = [threads EXCEPT !.reviewer = [pc |-> "replacement", entry |-> entry]]
    /\ learned_rules' = [learned_rules EXCEPT !["post_translation"][1].pattern =
                            entry.pattern]
    /\ UNCHANGED <<base_rules, mod_specific_rules, learnVars, lookups>>
    /\ UNCHANGED <<protVars, transVars, engineVars, callVars, runVars>>

\* existing_rule.replacement = rule.replacement
WriteReplacement ==
    /\ threads.reviewer.pc = "replacement"
    /\ threads' = [threads EXCEPT !.reviewer.pc = "save"]
    /\ learned_rules' = [learned_rules EXCEPT !["post_translation"][1].replacement =
                            threads.reviewer.entry.replacement]
    /\ UNCHANGED <<base_rules, mod_specific_rules, learnVars, lookups>>
    /\ UNCHANGED <<protVars, transVars, engineVars, callVars, runVars>>

\* the rest of the import: the description and the confidence of the entry,
\* which the reviewer left as exported, save_learned_rules and the return
SaveImport ==
    /\ threads.reviewer.pc = "save"
    /\ threads' = [threads EXCEPT !.reviewer = IdleReviewer]
    /\ imports' = imports + 1
    /\ \E st \in {save_learned_rules(ManagerState)} :
          /\ learned_rules' = st.learned
          /\ learned_file' = st.file
    /\ last_op' = [NoOp EXCEPT !.op = "import_reviewed_rules", !.ret = 1]
    /\ UNCHANGED <<base_rules, mod_specific_rules, learning_candidates, now, learns,
                   lookups>>
    /\ UNCHANGED <<protVars, transVars, engineVars, callVars, runVars>>

SwapNext ==
    \/ \E text \in SwapTexts : ApplyStart(text)
    \/ ReadPattern
    \/ Substitute
    \/ \E entry \in RuleContents : WritePattern(entry)
    \/ WriteReplacement
    \/ SaveImport

SpecSwap == SwapInit /\ [][SwapNext]_vars

\* C27: the content of a rule is replaced atomically: a worker that applies
\* rules while a review is imported never applies a rule whose pattern and
\* replacement come from two different versions of it.
C27_RuleReadAtomically ==
    (threads.worker.pc = "idle" /\ threads.worker.text # << >>)
        => [pattern |-> threads.worker.pattern,
            replacement |-> threads.worker.replacement] \in RuleContents

------------------------------------------------------------------------------
(* Pattern detection on the first observation of a manager *)

MaxWords == 3

DetectWords == { <<"greve">>, <<"frappe">> }

\* " ".join(words)
RECURSIVE JoinWords(_)
JoinWords(words) ==
    IF Len(words) = 0 THEN << >>
    ELSE IF Len(words) = 1 THEN words[1]
    ELSE words[1] \o <<" ">> \o JoinWords(Tail(words))

\* the texts of one to MaxWords words
DetectTexts ==
    { JoinWords(ws) : ws \in UNION { [1..n -> DetectWords] : n \in 1..MaxWords } }

\* learn_from_llm_improvement(original, original, improved, 0.75) on a
\* manager without candidates
Observe(original, improved) ==
    /\ learning_candidates = << >>
    /\ learns' = learns + 1
    /\ UNCHANGED imports
    /\ \E st \in {learn_from_llm_improvement(ManagerState, original, original, improved,
                                             Eighths(6), now)} :
          /\ learned_rules' = st.learned
          /\ learning_candidates' = st.cands
          /\ learned_file' = st.file
          /\ last_op' = [NoOp EXCEPT !.op = "learn", !.ret = 1,
                                     !.confidence = Eighths(6)]
    /\ UNCHANGED <<base_rules, mod_specific_rules, now>>
    /\ UNCHANGED <<threadVars, runVars, protVars, transVars, engineVars, callVars>>

DetectNext == \E original \in DetectTexts, improved \in DetectTexts : Observe(original, improved)

SpecDetect == ManagerInit /\ [][DetectNext]_vars

\* the positions at which the tokens of a candidate's two translations differ
DifferingPositions(c) ==
    { i \in 1..Len(Split(c.original_translation)) :
        Split(c.original_translation)[i] # Split(c.improved_translation)[i] }

\* the candidate's translations have the same number of tokens and differ
SameLengthDiffer(c) ==
    /\ Len(Split(c.original_translation)) = Len(Split(c.improved_translation))
    /\ DifferingPositions(c) # { }

\* C28: when the baseline and the refined translation split into the same
\* number of tokens and differ at some position, the detected pattern is the
\* word-anchored literal baseline token at the first differing position and
\* the suggested replacement is the refined token at that position, whatever
\* the later positions hold.
C28_FirstDifferingToken ==
    \A k \in 1..Len(learning_candidates) :
       \A c \in {learning_candidates[k]} :
          SameLengthDiffer(c) =>
             \E i \in DifferingPositions(c) :
                /\ \A j \in DifferingPositions(c) : i <= j
                /\ c.detected_pattern = Pat("word", Split(c.original_translation)[i])
                /\ c.suggested_replacement = Split(c.improved_translation)[i]

\* a candidate whose translations differ at two positions, the tokens at
\* the second being different from those at the first
C28_Witness ==
    \E k \in 1..Len(learning_candidates) :
       \E c \in {learning_candidates[k]} :
          /\ SameLengthDiffer(c)
          /\ Cardinality(DifferingPositions(c)) >= 2
          /\ \E i, j \in DifferingPositions(c) :
                Split(c.original_translation)[i] # Split(c.original_translation)[j]

\* the pending candidates with this detected pattern qualify for promotion
Qualifies(cands, p) ==
    \E g \in {SelectSeq(cands, LAMBDA c : c.detected_pattern = p)} :
       /\ SumSeq([i \in 1..Len(g) |-> g[i].frequency]) >= min_frequency_for_pattern
       /\ SumSeq([i \in 1..Len(g) |-> g[i].confidence * g[i].frequency])
            >= confidence_threshold * SumSeq([i \in 1..Len(g) |-> g[i].frequency])

\* C29: with auto_improve on, after a call of learn_from_llm_improvement
\* with a confidence of at least confidence_threshold has returned, no group
\* of pending candidates with the same detected pattern has a total
\* frequency of at least min_frequency_for_pattern and a weighted confidence
\* of at least confidence_threshold; this includes a call that is merged
\* into an existing candidate and raises its frequency.
C29_NoQualifyingGroupPending ==
    [][(learns' = learns + 1 /\ last_op'.op = "learn"
           /\ last_op'.confidence >= confidence_threshold)
        => \A p \in { learning_candidates'[i].detected_pattern :
                        i \in 1..Len(learning_candidates') } \ {NonePattern} :
              ~Qualifies(learning_candidates', p)]_vars

------------------------------------------------------------------------------
(* Cache keys of texts that look like keys *)

\* texts that end like a cache key, and two that differ only in whitespace
KeyTexts ==
    { <<"a">>, <<"a", "_", "True">>, <<"a", "_", "False">>,
      <<"a", "_", "True", "_", "False">>, <<"a", " ", "b">>, <<"a", " ", " ", "b">> }

KeyInit ==
    /\ ProtParked
    /\ RunParked
    /\ ThreadParked
    /\ StoreParked
    /\ LearnParked
    /\ use_llm_optimization \in BOOLEAN
    /\ rule_engine = "RuleEngine"
    /\ glossary_manager = "None"
    /\ cache = << >>
    /\ hits = 0
    /\ misses = 0
    /\ re_rules = NoRules
    /\ calls = 0
    /\ last_call = NoCall
    /\ prev_call = NoCall
    /\ rules_file = "none"

KeyNext ==
    \E text \in KeyTexts, mt \in {"identity", "french"} :
        ProcessText(text, FALSE, mt, "fail")

SpecKey == KeyInit /\ [][KeyNext]_vars

\* what process_text makes of the texts before it builds their keys
CleanedTexts == { normalize_whitespace(clean_encoding(text)) : text \in KeyTexts }

\* C30: the cache key is injective: a lookup of a text under a flag finds the
\* entry stored for another text only if the two cleaned and normalized
\* texts are equal and the flags are equal, also for texts that end in
\* "_True" or "_False".
C30_CacheKeyInjective ==
    \A cleaned1 \in CleanedTexts, cleaned2 \in CleanedTexts, flag2 \in BOOLEAN :
       (/\ CacheKey(cleaned1, use_llm_optimization) \in DOMAIN cache
        /\ CacheKey(cleaned2, flag2) = CacheKey(cleaned1, use_llm_optimization))
          => (cleaned1 = cleaned2 /\ flag2 = use_llm_optimization)

\* with the flag off, the text "a_True" was translated and stored, and the
\* lookup of "a_True_False" that followed did not find its entry
C30_Witness ==
    /\ ~use_llm_optimization
    /\ prev_call.text = <<"a", "_", "True">>
    /\ prev_call.path = "stored"
    /\ last_call.text = <<"a", "_", "True", "_", "False">>
    /\ last_call.path = "stored"
    /\ Cardinality(DOMAIN cache) = 2

==============================================================================
